---- MODULE Spec2Model ----
(***************************************************************************)
(* Commission resolution engine of am-websitebackend: the role-dispatched  *)
(* commission formula (services/commissionService.js), the historical team *)
(* lookup it calls (models/teamModel.js), the reconcile batch of           *)
(* syncCustomers / recalculateCustomerCommissions                          *)
(* (controllers/customerController.js) and the user_balance ledger         *)
(* (models/commissionModel.js, controllers/commissionController.js) over   *)
(* the tables of data/data.sql.                                            *)
(*                                                                         *)
(* Money is an integer number of 1/10000 dollar, so that a whole percent   *)
(* of a price in cents is exact; a NUMERIC(12,2) column holds multiples of *)
(* Cent and rounds what is assigned to it.  A date is an integer           *)
(* month * DaysPerMonth + day.                                             *)
(***************************************************************************)
EXTENDS Integers, Sequences, FiniteSets, TLC

\* ------------------------------------------------------------------------
\* Money and dates
\* ------------------------------------------------------------------------
Cent == 100
Dollar == 100 * Cent
DaysPerMonth == 2
NoDate == -1
NoUser == 0
NoRow == [none |-> TRUE]

Abs(x) == IF x < 0 THEN -x ELSE x
Min(a, b) == IF a < b THEN a ELSE b
Max(a, b) == IF a > b THEN a ELSE b

\* Assignment to a NUMERIC(12,2) column: round to the cent, ties away from zero.
RoundCents(x) ==
  IF x >= 0 THEN ((x + (Cent \div 2)) \div Cent) * Cent
            ELSE -((((-x) + (Cent \div 2)) \div Cent) * Cent)

MonthOf(d) == d \div DaysPerMonth
MkDate(month, day) == month * DaysPerMonth + day

\* date-fns differenceInMonths: whole months between two dates, the last month
\* counted only when it is full.
differenceInMonths(dateLeft, dateRight) ==
  LET sign == IF dateLeft > dateRight THEN 1 ELSE IF dateLeft < dateRight THEN -1 ELSE 0
      difference == Abs(MonthOf(dateLeft) - MonthOf(dateRight))
      shifted == dateLeft - sign * difference * DaysPerMonth
      isLastMonthNotFull ==
        (sign = 1 /\ shifted < dateRight) \/ (sign = -1 /\ shifted > dateRight)
  IN IF difference < 1 THEN 0
     ELSE sign * (difference - (IF isLastMonthNotFull THEN 1 ELSE 0))

\* ------------------------------------------------------------------------
\* Temporal membership index (models/teamModel.js).  utm is the
\* user_team_membership table: a set of rows [user_id, team_id, role,
\* joined_at, left_at]; users is the users table: a function id -> row.
\* ------------------------------------------------------------------------
CoversDateInclusiveEndMutant(m, targetDate) ==
  /\ m.joined_at <= targetDate
  /\ (m.left_at = NoDate \/ m.left_at >= targetDate)
CoversDate(m, targetDate) ==
  /\ m.joined_at <= targetDate
  /\ (m.left_at = NoDate \/ m.left_at > targetDate)

\* SELECT ... WHERE user_id = $1 AND joined_at <= $2 AND (left_at IS NULL OR
\* left_at > $2) ORDER BY joined_at DESC LIMIT 1; rows[0] (NoRow when empty).
\* Rows with equal joined_at are ordered by the database as it likes.
getUserTeamMembershipAnyDateMutant(utm, userId, targetDate) ==
  LET matching == {m \in utm : m.user_id = userId}
  IN IF matching = {} THEN {NoRow}
     ELSE {m \in matching : \A o \in matching : o.joined_at <= m.joined_at}
getUserTeamMembershipAtDate(utm, userId, targetDate) ==
  LET matching == {m \in utm : m.user_id = userId /\ CoversDate(m, targetDate)}
  IN IF matching = {} THEN {NoRow}
     ELSE {m \in matching : \A o \in matching : o.joined_at <= m.joined_at}

getTeamCompositionAtDate(utm, users, teamId, targetDate) ==
  {[user_id |-> m.user_id, membership_role |-> m.role, joined_at |-> m.joined_at,
    hire_date |-> users[m.user_id].hire_date] :
     m \in {x \in utm : x.team_id = teamId /\ x.user_id \in DOMAIN users
                         /\ CoversDate(x, targetDate)}}

\* The set of results the lookup can return; NoRow stands for null.
getHistoricalTeamDataForCommission(utm, users, userId, customerCreationDate) ==
  {IF membership = NoRow THEN NoRow
   ELSE [team_id |-> membership.team_id,
         team_members |->
           getTeamCompositionAtDate(utm, users, membership.team_id, customerCreationDate)] :
     membership \in getUserTeamMembershipAtDate(utm, userId, customerCreationDate)}

\* ------------------------------------------------------------------------
\* Commission formula engine (services/commissionService.js).  A price is a
\* number of cents (0 for a missing price), a rate a whole percent, so
\* rate * price is an amount in 1/10000 dollar.
\* ------------------------------------------------------------------------
LeadSources == {"Canvassing - Salesman", "Canvassing - Company", "Affiliate", "Referral", "Other"}

calculateAffiliateCommissionNoCapMutant(totalJobPrice) ==
  5 * totalJobPrice
calculateAffiliateCommission(totalJobPrice) ==
  Min(5 * totalJobPrice, 750 * Dollar)

\* The three tenure tiers of calculateSalesmanCommission.
TierOfBoundaryMutant(tenureMonths) ==
  IF tenureMonths < 6 THEN 1 ELSE IF tenureMonths <= 12 THEN 2 ELSE 3
TierOf(tenureMonths) ==
  IF tenureMonths <= 6 THEN 1 ELSE IF tenureMonths <= 12 THEN 2 ELSE 3

Inscope(tier, leadSource, effectivePrice) ==
  CASE tier = 1 ->
         (CASE leadSource = "Canvassing - Salesman" -> 10 * effectivePrice
            [] leadSource = "Canvassing - Company" -> (8 * effectivePrice) - 300 * Dollar
            [] leadSource = "Affiliate" -> 6 * effectivePrice
            [] leadSource = "Referral" -> 10 * effectivePrice
            [] OTHER -> 8 * effectivePrice)
    [] tier = 2 ->
         (CASE leadSource = "Canvassing - Salesman" -> 13 * effectivePrice
            [] leadSource = "Canvassing - Company" -> (10 * effectivePrice) - 300 * Dollar
            [] leadSource = "Affiliate" -> 8 * effectivePrice
            [] leadSource = "Referral" -> 10 * effectivePrice
            [] OTHER -> 10 * effectivePrice)
    [] OTHER ->
         (CASE leadSource = "Canvassing - Salesman" -> 15 * effectivePrice
            [] leadSource = "Canvassing - Company" -> (12 * effectivePrice) - 300 * Dollar
            [] leadSource = "Affiliate" -> 10 * effectivePrice
            [] leadSource = "Referral" -> 12 * effectivePrice
            [] OTHER -> 12 * effectivePrice)

calculateSalesmanCommissionNoBonusMutant(user, leadSource, initialScopePrice, totalJobPrice, marginAdded, customerCreationDate, now) ==
  LET effectiveDate == IF customerCreationDate # NoDate THEN customerCreationDate ELSE now
      hireDate == IF user.hire_date # NoDate THEN user.hire_date ELSE effectiveDate
      tenureMonths == differenceInMonths(effectiveDate, hireDate)
      effectivePrice == IF initialScopePrice = 0 THEN totalJobPrice ELSE initialScopePrice
  IN Inscope(TierOf(tenureMonths), leadSource, effectivePrice)

calculateSalesmanCommission(user, leadSource, initialScopePrice, totalJobPrice, marginAdded, customerCreationDate, now) ==
  LET effectiveDate == IF customerCreationDate # NoDate THEN customerCreationDate ELSE now
      hireDate == IF user.hire_date # NoDate THEN user.hire_date ELSE effectiveDate
      tenureMonths == differenceInMonths(effectiveDate, hireDate)
      effectivePrice == IF initialScopePrice = 0 THEN totalJobPrice ELSE initialScopePrice
      mrgadd == IF initialScopePrice > 0 /\ totalJobPrice > 0 THEN 4 * marginAdded ELSE 0
  IN Inscope(TierOf(tenureMonths), leadSource, effectivePrice) + mrgadd

\* team.team_members.find(...): the member rows carry no left_at column, so
\* the left_at test of the callback is always passed.
FindTeamMember(team, memberId, created_at) ==
  {member \in team.team_members :
     member.user_id = memberId /\ member.joined_at <= created_at}

calculateSalesManagerCommissionNoSkipMutant(user, customer, leadSource, totalJobPrice, team, skipOverride) ==
  IF customer.salesman_id = user.id
  THEN (CASE leadSource \in {"Canvassing - Salesman", "Referral"} -> 15 * totalJobPrice
          [] leadSource = "Canvassing - Company" -> (12 * totalJobPrice) - 300 * Dollar
          [] leadSource = "Affiliate" -> 10 * totalJobPrice
          [] OTHER -> 12 * totalJobPrice)
  ELSE IF team = NoRow THEN 0
  ELSE LET found == FindTeamMember(team, customer.salesman_id, customer.created_at)
       IN IF found = {} THEN 0
          ELSE LET teamMember == CHOOSE member \in found : TRUE
                   memberHireDate == IF teamMember.hire_date # NoDate
                                     THEN teamMember.hire_date ELSE customer.created_at
                   tenureMonths == differenceInMonths(customer.created_at, memberHireDate)
               IN IF tenureMonths <= 6 THEN 4 * totalJobPrice
                  ELSE IF tenureMonths <= 12 THEN 2 * totalJobPrice
                  ELSE 3 * totalJobPrice

calculateSalesManagerCommissionSalesmanTableMutant(user, customer, leadSource, totalJobPrice, team, skipOverride) ==
  IF skipOverride THEN 0
  ELSE IF customer.salesman_id = user.id
  THEN Inscope(3, leadSource, totalJobPrice)
  ELSE IF team = NoRow THEN 0
  ELSE LET found == FindTeamMember(team, customer.salesman_id, customer.created_at)
       IN IF found = {} THEN 0
          ELSE LET teamMember == CHOOSE member \in found : TRUE
                   memberHireDate == IF teamMember.hire_date # NoDate
                                     THEN teamMember.hire_date ELSE customer.created_at
                   tenureMonths == differenceInMonths(customer.created_at, memberHireDate)
               IN IF tenureMonths <= 6 THEN 4 * totalJobPrice
                  ELSE IF tenureMonths <= 12 THEN 2 * totalJobPrice
                  ELSE 3 * totalJobPrice

calculateSalesManagerCommission(user, customer, leadSource, totalJobPrice, team, skipOverride) ==
  IF skipOverride THEN 0
  ELSE IF customer.salesman_id = user.id
  THEN (CASE leadSource \in {"Canvassing - Salesman", "Referral"} -> 15 * totalJobPrice
          [] leadSource = "Canvassing - Company" -> (12 * totalJobPrice) - 300 * Dollar
          [] leadSource = "Affiliate" -> 10 * totalJobPrice
          [] OTHER -> 12 * totalJobPrice)
  ELSE IF team = NoRow THEN 0
  ELSE LET found == FindTeamMember(team, customer.salesman_id, customer.created_at)
       IN IF found = {} THEN 0
          ELSE LET teamMember == CHOOSE member \in found : TRUE
                   memberHireDate == IF teamMember.hire_date # NoDate
                                     THEN teamMember.hire_date ELSE customer.created_at
                   tenureMonths == differenceInMonths(customer.created_at, memberHireDate)
               IN IF tenureMonths <= 6 THEN 4 * totalJobPrice
                  ELSE IF tenureMonths <= 12 THEN 2 * totalJobPrice
                  ELSE 3 * totalJobPrice

calculateSupplementManagerCommission(user, customer, marginAdded, team, goingToAppraisal, skipOverride) ==
  IF skipOverride THEN 0
  ELSE IF customer.supplementer_id = user.id
  THEN Max((IF goingToAppraisal THEN 8 ELSE 10) * marginAdded, 500 * Dollar)
  ELSE IF team = NoRow THEN 0
  ELSE IF FindTeamMember(team, customer.supplementer_id, customer.created_at) = {} THEN 0
  ELSE Max((IF goingToAppraisal THEN 2 ELSE 3) * marginAdded, 200 * Dollar)

calculateSupplementerCommission(marginAdded, goingToAppraisal) ==
  Max((IF goingToAppraisal THEN 6 ELSE 7) * marginAdded, 300 * Dollar)

\* calculateCommission(user, customer, team, useHistoricalData = true).
\* historicalTeam is what getHistoricalTeamDataForCommission returned for
\* (user.id, customerCreationDate); now is the clock read by new Date().
calculateCommission(user, customer, team, historicalTeam, now) ==
  LET initialScopePrice == customer.initial_scope_price
      totalJobPrice == customer.total_job_price
      marginAdded == totalJobPrice - initialScopePrice
      customerCreationDate == IF customer.jn_date_added # NoDate
                              THEN customer.jn_date_added ELSE customer.created_at
      customerCreatedBeforeHire ==
        /\ customerCreationDate # NoDate
        /\ user.hire_date # NoDate
        /\ customerCreationDate < user.hire_date
      isExplicitlyAssignedToJob ==
        \/ customer.salesman_id = user.id
        \/ customer.supplementer_id = user.id
        \/ customer.manager_id = user.id
        \/ customer.supplement_manager_id = user.id
      skipOverrideDueToTiming == customerCreatedBeforeHire /\ ~isExplicitlyAssignedToJob
      effectiveTeam == IF customerCreationDate # NoDate THEN historicalTeam ELSE team
  IN CASE user.role = "Affiliate Marketer" -> calculateAffiliateCommission(totalJobPrice)
       [] user.role = "Salesman" ->
            calculateSalesmanCommission(user, customer.lead_source, initialScopePrice,
                                        totalJobPrice, marginAdded, customerCreationDate, now)
       [] user.role = "Sales Manager" ->
            calculateSalesManagerCommission(user, customer, customer.lead_source,
                                            totalJobPrice, effectiveTeam, skipOverrideDueToTiming)
       [] user.role = "Supplement Manager" ->
            calculateSupplementManagerCommission(user, customer, marginAdded, effectiveTeam,
                                                 customer.going_to_appraisal,
                                                 skipOverrideDueToTiming)
       [] user.role = "Supplementer" ->
            calculateSupplementerCommission(marginAdded, customer.going_to_appraisal)
       [] OTHER -> 0

\* ------------------------------------------------------------------------
\* State
\* ------------------------------------------------------------------------
VARIABLES
  customers,        \* customers table: customer id -> row
  commissions_due,  \* committed rows [id, user_id, customer_id, commission_amount, admin_modified]
  user_balance,     \* committed user_balance: user id -> row or NoRow
  payments,         \* committed rows [id, user_id, amount]
  nextId,           \* the SERIAL sequences of commissions_due and payments
  pc,               \* per request: where syncCustomers / recalculateCustomerCommissions stands
  kind,             \* per request: "sync" or "recalc"
  batch,            \* per request: the finalized customers handed to bulkProcessCommissions
  existing,         \* per request: rows read by the SELECT of bulkProcessCommissions
  ops,              \* per request: [create, update, balance, errors] built by the batch
  tx,               \* per request: the open transaction's uncommitted writes
  response,         \* per request: what the caller got
  counts,           \* how many requests were accepted so far
  version,          \* history: number of committed changes of customers / commissions_due
  readAt,           \* history: per request, version and earned totals when existing was read
  lastCommit,       \* history: the last committed batch
  calcIn,           \* arguments of one calculateCommission call, and the tables it reads
  calcOut,          \* its return value
  calcPc,           \* "ready" before the call, "done" after it
  user_team_membership, \* committed rows [user_id, team_id, role, joined_at, left_at]
  teamTx,           \* the open modifyTeam / bulkUpdateTeamMemberships request
  covered,          \* history: <<user, team, date>> once covered by a stored interval
  teams,            \* ids of the rows of the teams table
  conn,             \* pool connections: connection -> open transaction and its uncommitted writes
  idle,             \* the pool's idle list, last released connection last
  rq,               \* per pool request: the statement it is at and the connection it holds
  payment_commission_mapping, \* committed rows [payment_id, commission_due_id]
  is_paid,          \* ids of the commissions_due rows whose is_paid is true
  cache,            \* commissionController's cache entry 'all_user_balances', or NoRow
  served            \* the last getAllUserBalances response and the committed table then, or NoRow

dbVars == <<customers, commissions_due, user_balance, payments, nextId>>
runVars == <<pc, kind, batch, existing, ops, tx, response>>
histVars == <<counts, version, readAt, lastCommit>>
calcVars == <<calcIn, calcOut, calcPc>>
teamVars == <<user_team_membership, teamTx, covered, teams>>
poolVars == <<conn, idle, rq>>
paidVars == <<payment_commission_mapping, is_paid>>
cacheVars == <<cache, served>>
payVars == <<conn, idle, rq, payment_commission_mapping, is_paid, cache, served>>
vars == <<customers, commissions_due, user_balance, payments, nextId, pc, kind, batch, existing, ops, tx, response, counts, version, readAt, lastCommit, calcIn, calcOut, calcPc, user_team_membership, teamTx, covered, teams, conn, idle, rq, payment_commission_mapping, is_paid, cache, served>>

\* ------------------------------------------------------------------------
\* Bounds and the data of the runs
\* ------------------------------------------------------------------------
\* requests served in one behaviour: syncs, recalculations, admin and payment requests
MaxRequests == 3

Procs == {1, 2}
\* The job enters the system at JobDate.
JobMonth == 20
JobDate == MkDate(JobMonth, 0)

\* users table, as getAllUsers returns it
AllUsers ==
  (1 :> [id |-> 1, role |-> "Salesman", hire_date |-> MkDate(JobMonth - 3, 0)]) @@
  (2 :> [id |-> 2, role |-> "Affiliate Marketer", hire_date |-> NoDate])
\* user_team_membership during the runs
Memberships == {}

\* What the JobNimbus feed can say about the one job: who worked it, its
\* status and price (cents: none, 9 cents, 30 cents).  rejects names the user
\* whose calculation throws.
Job(status, salesman, supplementer, referrer, total, rejects) ==
  [id |-> 1, status |-> status, salesman_id |-> salesman, supplementer_id |-> supplementer,
   manager_id |-> NoUser, supplement_manager_id |-> NoUser, referrer_id |-> referrer,
   lead_source |-> "Other", initial_scope_price |-> 0, total_job_price |-> total,
   going_to_appraisal |-> FALSE, jn_date_added |-> JobDate, created_at |-> JobDate,
   rejects |-> rejects]

JobShapes ==
  { Job("Finalized", NoUser, NoUser, 2, 0, NoUser),
    Job("Finalized", NoUser, NoUser, 2, 9, NoUser),
    Job("Finalized", 1, 1, 2, 30, NoUser),
    Job("Finalized", 3, 1, 2, 30, 1) }

\* whom the admin and payment requests of the runs concern
AdminUsers == {2}
AdminAmounts == {700}
PaymentAmounts == {1000}

ZeroBalance == [total_commissions_earned |-> 0, total_payments_received |-> 0, current_balance |-> 0]
NoOps == [create |-> <<>>, update |-> <<>>, balance |-> <<>>, errors |-> <<>>]
NoTx == [state |-> "none", ins |-> {}, upd |-> {}, del |-> {}, bal |-> <<>>]

Range(seq) == {seq[i] : i \in DOMAIN seq}

\* ------------------------------------------------------------------------
\* bulkProcessCommissions: tasks, calculation, create / update ops, deltas
\* ------------------------------------------------------------------------
\* userRoles of one customer, before the filter
Slots(customer) ==
  << customer.salesman_id, customer.supplementer_id, customer.manager_id,
     customer.supplement_manager_id, customer.referrer_id >>

\* .filter(role => role.id && userIdMap.has(role.id))
KnownSlot(userId, userIdMap) == userId # NoUser /\ userId \in DOMAIN userIdMap

\* existingCommissionsMap.get(`${customer.id}_${userId}`)
ExistingFor(rows, customerId, userId) ==
  IF \E r \in rows : r.customer_id = customerId /\ r.user_id = userId
  THEN CHOOSE r \in rows : r.customer_id = customerId /\ r.user_id = userId
  ELSE NoRow

\* if (existingCommission?.admin_modified) continue;
SkipAdminModifiedMutant(existingCommission) == FALSE
SkipAdminModified(existingCommission) ==
  existingCommission # NoRow /\ existingCommission.admin_modified

RECURSIVE TasksOfSlots(_, _, _, _, _)
TasksOfSlots(customer, slots, i, userIdMap, rows) ==
  IF i > Len(slots) THEN <<>>
  ELSE LET userId == slots[i]
           existingCommission == ExistingFor(rows, customer.id, userId)
           rest == TasksOfSlots(customer, slots, i + 1, userIdMap, rows)
       IN IF ~KnownSlot(userId, userIdMap) THEN rest
          ELSE IF SkipAdminModified(existingCommission) THEN rest
          ELSE << [customerId |-> customer.id, userId |-> userId, customer |-> customer,
                   user |-> userIdMap[userId], existingCommission |-> existingCommission] >> \o rest

RECURSIVE CommissionTasks(_, _, _, _)
CommissionTasks(customerSeq, i, userIdMap, rows) ==
  IF i > Len(customerSeq) THEN <<>>
  ELSE TasksOfSlots(customerSeq[i], Slots(customerSeq[i]), 1, userIdMap, rows)
       \o CommissionTasks(customerSeq, i + 1, userIdMap, rows)

\* if (Math.abs(difference) > 0.01)
SignificantAnyDifferenceMutant(difference) == difference # 0
Significant(difference) == Abs(difference) > Cent

\* balanceUpdates.set(task.userId, currentBalance + amount), currentBalance
\* being balanceUpdates.get(task.userId) || 0
AddDeltaOverwriteMutant(balanceUpdates, userId, amount) ==
  IF userId \in DOMAIN balanceUpdates
  THEN [balanceUpdates EXCEPT ![userId] = amount]
  ELSE balanceUpdates @@ (userId :> amount)
AddDelta(balanceUpdates, userId, amount) ==
  IF userId \in DOMAIN balanceUpdates
  THEN [balanceUpdates EXCEPT ![userId] = @ + amount]
  ELSE balanceUpdates @@ (userId :> amount)

\* ProcessTask with the 'rejected' branch leaving the errors list alone.
ProcessTaskUnrecordedMutant(acc, task, numericAmount, rejected) ==
  IF rejected \/ numericAmount <= 0 THEN acc
  ELSE IF task.existingCommission # NoRow
  THEN LET difference == numericAmount - task.existingCommission.commission_amount
       IN IF Abs(difference) > Cent
          THEN [acc EXCEPT !.update = Append(@, [id |-> task.existingCommission.id,
                                                  commission_amount |-> numericAmount]),
                           !.balance = AddDelta(@, task.userId, difference)]
          ELSE acc
  ELSE [acc EXCEPT !.create = Append(@, [user_id |-> task.userId, customer_id |-> task.customerId,
                                          commission_amount |-> numericAmount,
                                          admin_modified |-> FALSE]),
                   !.balance = AddDelta(@, task.userId, numericAmount)]

\* The callback of batch.map for one task, and the 'rejected' branch after
\* Promise.allSettled.
ProcessTask(acc, task, numericAmount, rejected) ==
  IF rejected
  THEN [acc EXCEPT !.errors = Append(@, [userId |-> task.userId, customerId |-> task.customerId])]
  ELSE IF numericAmount <= 0 THEN acc
  ELSE IF task.existingCommission # NoRow
  THEN LET oldAmount == task.existingCommission.commission_amount
           difference == numericAmount - oldAmount
       IN IF Significant(difference)
          THEN [acc EXCEPT !.update = Append(@, [id |-> task.existingCommission.id,
                                                  commission_amount |-> numericAmount]),
                           !.balance = AddDelta(@, task.userId, difference)]
          ELSE acc
  ELSE [acc EXCEPT !.create = Append(@, [user_id |-> task.userId, customer_id |-> task.customerId,
                                          commission_amount |-> numericAmount,
                                          admin_modified |-> FALSE]),
                   !.balance = AddDelta(@, task.userId, numericAmount)]

\* await calculateCommission(task.user, task.customer, null, true) for one task
TaskAmount(task) ==
  LET creation == IF task.customer.jn_date_added # NoDate THEN task.customer.jn_date_added ELSE task.customer.created_at
      historicalTeam == CHOOSE t \in getHistoricalTeamDataForCommission(Memberships, AllUsers, task.user.id, creation) : TRUE
  IN calculateCommission(task.user, task.customer, NoRow, historicalTeam, JobDate)

RECURSIVE ProcessTasks(_, _, _)
ProcessTasks(tasks, i, acc) ==
  IF i > Len(tasks) THEN acc
  ELSE ProcessTasks(tasks, i + 1,
         ProcessTask(acc, tasks[i], TaskAmount(tasks[i]), tasks[i].customer.rejects = tasks[i].userId))

\* ------------------------------------------------------------------------
\* The database: READ COMMITTED transactions on a client, autocommit on the pool
\* ------------------------------------------------------------------------
\* commissions_due as the statements of request p see it
ViewRows(p) ==
  {IF \E u \in tx[p].upd : u.id = r.id
   THEN [r EXCEPT !.commission_amount = (CHOOSE u \in tx[p].upd : u.id = r.id).commission_amount]
   ELSE r : r \in {x \in commissions_due : x.id \notin tx[p].del}} \cup tx[p].ins

ViewBalance(p, u) == IF u \in DOMAIN tx[p].bal THEN tx[p].bal[u] ELSE user_balance[u]

\* rows and keys another open transaction has written and not yet committed
RowLockedByOther(p, id) ==
  \E q \in Procs \ {p} : id \in tx[q].del \/ (\E u \in tx[q].upd : u.id = id)
KeyPendingInOther(p, userId, customerId) ==
  \E q \in Procs \ {p} :
    \/ \E r \in tx[q].ins : r.user_id = userId /\ r.customer_id = customerId
    \/ \E r \in commissions_due : r.id \in tx[q].del /\ r.user_id = userId /\ r.customer_id = customerId
BalanceLockedByOther(p, u) == \E q \in Procs \ {p} : u \in DOMAIN tx[q].bal
RowLocked(id) == \E q \in Procs : id \in tx[q].del \/ (\E u \in tx[q].upd : u.id = id)
BalanceLocked(u) == \E q \in Procs : u \in DOMAIN tx[q].bal

\* total_commissions_earned = total_commissions_earned + amount,
\* current_balance = current_balance + amount, each assigned to NUMERIC(12,2)
ApplyCommissionDelta(row, amount) ==
  [row EXCEPT !.total_commissions_earned = RoundCents(@ + amount),
              !.current_balance = RoundCents(@ + amount)]

\* total_payments_received = total_payments_received + amount,
\* current_balance = current_balance - amount
ApplyPaymentDelta(row, amount) ==
  [row EXCEPT !.total_payments_received = RoundCents(@ + amount),
              !.current_balance = RoundCents(@ - amount)]

\* ------------------------------------------------------------------------
\* syncCustomers / recalculateCustomerCommissions, one database statement a step
\* ------------------------------------------------------------------------
Resting(p) == pc[p] \in {"idle", "committed", "rolledback"}

NoResponse == [status |-> "none", errors |-> <<>>]
ErrorLimit == 10
\* res.status(errors.length > 0 ? 207 : 200).json({..., errors:
\* errors.length > 0 ? errors.slice(0, 10) : undefined})
SyncResponseUntruncatedMutant(errors) ==
  [status |-> IF Len(errors) > 0 THEN "207" ELSE "200", errors |-> errors]
SyncResponse(errors) ==
  [status |-> IF Len(errors) > 0 THEN "207" ELSE "200",
   errors |-> SubSeq(errors, 1, Min(Len(errors), ErrorLimit))]

StartRun(p, k, customerSeq, first) ==
  /\ pc' = [pc EXCEPT ![p] = first]
  /\ kind' = [kind EXCEPT ![p] = k]
  /\ batch' = [batch EXCEPT ![p] = customerSeq]
  /\ existing' = [existing EXCEPT ![p] = {}]
  /\ ops' = [ops EXCEPT ![p] = NoOps]
  /\ tx' = [tx EXCEPT ![p] = [NoTx EXCEPT !.state = "active"]]
  /\ response' = [response EXCEPT ![p] = NoResponse]
  /\ counts' = counts + 1
  /\ readAt' = [readAt EXCEPT ![p] = [version |-> -1, earned |-> <<>>]]

\* BEGIN; the feed is mapped and upserted (modelBulkUpsert commits on its own
\* connection); the finalized customers are collected.
SyncBegin(p, job) ==
  /\ Resting(p)
  /\ counts < MaxRequests
  /\ customers' = [customers EXCEPT ![job.id] = job]
  /\ version' = IF customers[job.id] = job THEN version ELSE version + 1
  /\ LET commissionsToProcess == IF job.status = "Finalized" THEN <<job>> ELSE <<>>
     IN StartRun(p, "sync", commissionsToProcess,
                 IF commissionsToProcess # <<>> THEN "reconcile" ELSE "commit")
  /\ UNCHANGED <<commissions_due, user_balance, payments, nextId, lastCommit, calcVars, teamVars, payVars>>

\* recalculateCustomerCommissions up to BEGIN: the customer must be Finalized.
RecalcBegin(p, customerId) ==
  /\ Resting(p)
  /\ counts < MaxRequests
  /\ customers[customerId].status = "Finalized"
  /\ StartRun(p, "recalc", <<customers[customerId]>>, "subtract")
  /\ UNCHANGED <<dbVars, version, lastCommit, calcVars, teamVars, payVars>>

\* UPDATE user_balance SET ... - cd.commission_amount FROM commissions_due cd
\* WHERE cd.customer_id = $1 AND user_balance.user_id = cd.user_id
RecalcSubtract(p) ==
  /\ pc[p] = "subtract"
  /\ LET cds == {r \in ViewRows(p) : r.customer_id = batch[p][1].id /\ ViewBalance(p, r.user_id) # NoRow}
         targets == {r.user_id : r \in cds}
         amountOf(u) == (CHOOSE r \in cds : r.user_id = u).commission_amount
     IN /\ \A u \in targets : ~BalanceLockedByOther(p, u)
        /\ tx' = [tx EXCEPT ![p].bal =
                    [u \in DOMAIN @ \cup targets |->
                       IF u \in targets THEN ApplyCommissionDelta(ViewBalance(p, u), -amountOf(u))
                       ELSE @[u]]]
  /\ pc' = [pc EXCEPT ![p] = "delete"]
  /\ UNCHANGED <<dbVars, kind, batch, existing, ops, response, histVars, calcVars, teamVars, payVars>>

\* DELETE FROM commissions_due WHERE customer_id = $1
RecalcDelete(p) ==
  /\ pc[p] = "delete"
  /\ LET targets == {r.id : r \in {x \in commissions_due : x.customer_id = batch[p][1].id}}
     IN /\ \A id \in targets : ~RowLockedByOther(p, id)
        /\ tx' = [tx EXCEPT ![p].del = @ \cup targets]
  /\ pc' = [pc EXCEPT ![p] = "reconcile"]
  /\ UNCHANGED <<dbVars, kind, batch, existing, ops, response, histVars, calcVars, teamVars, payVars>>

FirstStatement(o) ==
  IF o.create # <<>> THEN "insert"
  ELSE IF o.update # <<>> THEN "update"
  ELSE IF DOMAIN o.balance # {} THEN "ensure"
  ELSE "commit"

\* bulkProcessCommissions steps 1-3: the SELECT of the existing rows, the
\* tasks, the calculations and the queued ops.
Reconcile(p) ==
  /\ pc[p] = "reconcile"
  /\ LET customerIds == {c.id : c \in Range(batch[p])}
         rows == {r \in ViewRows(p) : r.customer_id \in customerIds}
         commissionTasks == CommissionTasks(batch[p], 1, AllUsers, rows)
         o == ProcessTasks(commissionTasks, 1, NoOps)
     IN /\ existing' = [existing EXCEPT ![p] = rows]
        /\ ops' = [ops EXCEPT ![p] = o]
        /\ pc' = [pc EXCEPT ![p] = FirstStatement(o)]
  /\ readAt' = [readAt EXCEPT ![p] =
                  [version |-> version,
                   earned |-> [u \in DOMAIN AllUsers |->
                                 IF user_balance[u] = NoRow THEN 0
                                 ELSE user_balance[u].total_commissions_earned]]]
  /\ UNCHANGED <<dbVars, kind, batch, tx, response, counts, version, lastCommit, calcVars, teamVars, payVars>>

SameKey(a, b) == a.user_id = b.user_id /\ a.customer_id = b.customer_id

\* bulkInsertCommissions: one INSERT of all queued rows; unique_user_customer
\* rejects a key that is already there or that comes twice.  (The variant in
\* customerController.js names seven columns for five values per row, so its
\* INSERT fails whenever it runs: StatementFails at "insert".)
BulkInsert(p) ==
  /\ pc[p] = "insert"
  /\ LET create == ops[p].create
         twice == \E i, j \in DOMAIN create : i # j /\ SameKey(create[i], create[j])
         taken == \E i \in DOMAIN create : \E r \in ViewRows(p) : SameKey(create[i], r)
         waiting == \E i \in DOMAIN create : KeyPendingInOther(p, create[i].user_id, create[i].customer_id)
     IN IF twice \/ taken
        THEN /\ tx' = [tx EXCEPT ![p].state = "aborted"]
             /\ pc' = [pc EXCEPT ![p] = "rollback"]
             /\ UNCHANGED nextId
        ELSE /\ ~waiting
             /\ tx' = [tx EXCEPT ![p].ins = @ \cup
                         {[id |-> nextId.commission + i - 1, user_id |-> create[i].user_id,
                           customer_id |-> create[i].customer_id,
                           commission_amount |-> RoundCents(create[i].commission_amount),
                           admin_modified |-> create[i].admin_modified] : i \in DOMAIN create}]
             /\ nextId' = [nextId EXCEPT !.commission = @ + Len(create)]
             /\ pc' = [pc EXCEPT ![p] =
                         IF ops[p].update # <<>> THEN "update"
                         ELSE IF DOMAIN ops[p].balance # {} THEN "ensure" ELSE "commit"]
  /\ UNCHANGED <<customers, commissions_due, user_balance, payments, kind, batch, existing, ops, response, histVars, calcVars, teamVars, payVars>>

\* bulkUpdateCommissions: UPDATE commissions_due SET commission_amount = ...
\* FROM (VALUES ...) WHERE commissions_due.id = updates.id
BulkUpdate(p) ==
  /\ pc[p] = "update"
  /\ LET update == ops[p].update
         targets == {r.id : r \in ViewRows(p)} \cap {update[i].id : i \in DOMAIN update}
         amountOf(id) == (CHOOSE i \in DOMAIN update : update[i].id = id)
     IN /\ \A id \in targets : ~RowLockedByOther(p, id)
        /\ tx' = [tx EXCEPT ![p].upd = {u \in @ : u.id \notin targets} \cup
                    {[id |-> id, commission_amount |-> RoundCents(update[amountOf(id)].commission_amount)] : id \in targets}]
  /\ pc' = [pc EXCEPT ![p] = IF DOMAIN ops[p].balance # {} THEN "ensure" ELSE "commit"]
  /\ UNCHANGED <<dbVars, kind, batch, existing, ops, response, histVars, calcVars, teamVars, payVars>>

\* The connection bulkUpdateUserBalances sends its statements on.
BalanceConnectionPoolMutant == "pool"
BalanceConnection == "client"

\* bulkUpdateUserBalances, first statement: INSERT INTO user_balance SELECT id,
\* 0, 0, 0 FROM users WHERE id = ANY($1) ON CONFLICT (user_id) DO NOTHING
EnsureBalances(p) ==
  /\ pc[p] = "ensure"
  /\ LET missing == {u \in DOMAIN ops[p].balance \cap DOMAIN AllUsers : ViewBalance(p, u) = NoRow}
     IN /\ \A u \in missing : ~BalanceLockedByOther(p, u)
        /\ IF BalanceConnection = "client"
           THEN /\ tx' = [tx EXCEPT ![p].bal = [u \in DOMAIN @ \cup missing |-> IF u \in missing THEN ZeroBalance ELSE @[u]]]
                /\ UNCHANGED user_balance
           ELSE /\ user_balance' = [u \in DOMAIN user_balance |-> IF u \in missing /\ user_balance[u] = NoRow THEN ZeroBalance ELSE user_balance[u]]
                /\ UNCHANGED tx
  /\ pc' = [pc EXCEPT ![p] = "balance"]
  /\ UNCHANGED <<customers, commissions_due, payments, nextId, kind, batch, existing, ops, response, histVars, calcVars, teamVars, payVars>>

\* bulkUpdateUserBalances, second statement: one additive UPDATE per user
BulkUpdateUserBalances(p) ==
  /\ pc[p] = "balance"
  /\ LET targets == {u \in DOMAIN ops[p].balance \cap DOMAIN AllUsers : ViewBalance(p, u) # NoRow}
     IN /\ \A u \in targets : ~BalanceLockedByOther(p, u)
        /\ IF BalanceConnection = "client"
           THEN /\ tx' = [tx EXCEPT ![p].bal = [u \in DOMAIN @ \cup targets |->
                            IF u \in targets THEN ApplyCommissionDelta(ViewBalance(p, u), ops[p].balance[u]) ELSE @[u]]]
                /\ UNCHANGED user_balance
           ELSE /\ user_balance' = [u \in DOMAIN user_balance |->
                            IF u \in targets /\ user_balance[u] # NoRow
                            THEN ApplyCommissionDelta(user_balance[u], ops[p].balance[u]) ELSE user_balance[u]]
                /\ UNCHANGED tx
  /\ pc' = [pc EXCEPT ![p] = "commit"]
  /\ UNCHANGED <<customers, commissions_due, payments, nextId, kind, batch, existing, ops, response, histVars, calcVars, teamVars, payVars>>

\* A statement of the open transaction fails in the database (lock wait given
\* up, deadlock, connection loss): Promise.all rejects and the catch block runs.
StatementFails(p) ==
  /\ pc[p] \in {"subtract", "delete", "insert", "update", "ensure", "balance", "commit"}
  /\ tx' = [tx EXCEPT ![p].state = "aborted"]
  /\ pc' = [pc EXCEPT ![p] = "rollback"]
  /\ UNCHANGED <<dbVars, kind, batch, existing, ops, response, histVars, calcVars, teamVars, payVars>>

Wrote(t) == t.ins # {} \/ t.upd # {} \/ t.del # {}

\* COMMIT, then the response: 207 with the errors, else 200
Commit(p) ==
  /\ pc[p] = "commit"
  /\ commissions_due' = ViewRows(p)
  /\ user_balance' = [u \in DOMAIN user_balance |-> ViewBalance(p, u)]
  /\ tx' = [tx EXCEPT ![p] = NoTx]
  /\ pc' = [pc EXCEPT ![p] = "committed"]
  /\ response' = [response EXCEPT ![p] = IF kind[p] = "sync" THEN SyncResponse(ops[p].errors)
                                         ELSE [status |-> "200", errors |-> <<>>]]
  /\ version' = IF Wrote(tx[p]) THEN version + 1 ELSE version
  /\ lastCommit' = [batch |-> batch[p], version |-> version',
                    clean |-> batch[p] # <<>> /\ readAt[p].version = version]
  /\ UNCHANGED <<customers, payments, nextId, kind, batch, existing, ops, counts, readAt, calcVars, teamVars, payVars>>

\* catch: ROLLBACK, next(error)
Rollback(p) ==
  /\ pc[p] = "rollback"
  /\ tx' = [tx EXCEPT ![p] = NoTx]
  /\ pc' = [pc EXCEPT ![p] = "rolledback"]
  /\ response' = [response EXCEPT ![p] = [status |-> "error", errors |-> <<>>]]
  /\ UNCHANGED <<dbVars, kind, batch, existing, ops, histVars, calcVars, teamVars, payVars>>

\* ------------------------------------------------------------------------
\* Admin commission requests and payments (statements on the pool)
\* ------------------------------------------------------------------------
\* INSERT ... VALUES ($2, $1, 0, $1) ON CONFLICT (user_id) DO UPDATE SET
\* total_commissions_earned = ... + $1, current_balance = ... + $1
updateUserBalanceOnCommissionChange(balances, userId, amountChange) ==
  [balances EXCEPT ![userId] =
     IF @ = NoRow
     THEN [total_commissions_earned |-> RoundCents(amountChange), total_payments_received |-> 0,
           current_balance |-> RoundCents(amountChange)]
     ELSE ApplyCommissionDelta(@, amountChange)]

addCommission(userId, customerId, amount, adminModified) ==
  /\ counts < MaxRequests
  /\ ~\E r \in commissions_due : r.user_id = userId /\ r.customer_id = customerId
  /\ ~KeyPendingInOther(0, userId, customerId)
  /\ ~BalanceLocked(userId)
  /\ commissions_due' = commissions_due \cup
       {[id |-> nextId.commission, user_id |-> userId, customer_id |-> customerId,
         commission_amount |-> RoundCents(amount), admin_modified |-> adminModified]}
  /\ nextId' = [nextId EXCEPT !.commission = @ + 1]
  /\ user_balance' = updateUserBalanceOnCommissionChange(user_balance, userId, amount)
  /\ cache' = NoRow
  /\ counts' = counts + 1
  /\ version' = version + 1
  /\ UNCHANGED <<customers, payments, runVars, readAt, lastCommit, calcVars, teamVars, poolVars, paidVars, served>>

updateCommission(originalCommission, amount, adminModified) ==
  /\ counts < MaxRequests
  /\ originalCommission \in commissions_due
  /\ ~RowLocked(originalCommission.id)
  /\ ~BalanceLocked(originalCommission.user_id)
  /\ commissions_due' = (commissions_due \ {originalCommission}) \cup
       {[originalCommission EXCEPT !.commission_amount = RoundCents(amount),
                                   !.admin_modified = adminModified]}
  /\ LET amountDifference == amount - originalCommission.commission_amount
     IN /\ user_balance' = IF amountDifference # 0
                           THEN updateUserBalanceOnCommissionChange(user_balance, originalCommission.user_id, amountDifference)
                           ELSE user_balance
        /\ cache' = IF amountDifference # 0 THEN NoRow ELSE cache
  /\ counts' = counts + 1
  /\ version' = version + 1
  /\ UNCHANGED <<customers, payments, nextId, runVars, readAt, lastCommit, calcVars, teamVars, poolVars, paidVars, served>>

deleteCommission(commission) ==
  /\ counts < MaxRequests
  /\ commission \in commissions_due
  /\ ~RowLocked(commission.id)
  /\ ~BalanceLocked(commission.user_id)
  /\ commissions_due' = commissions_due \ {commission}
  /\ user_balance' = updateUserBalanceOnCommissionChange(user_balance, commission.user_id, -commission.commission_amount)
  /\ cache' = NoRow
  /\ counts' = counts + 1
  /\ version' = version + 1
  /\ UNCHANGED <<customers, payments, nextId, runVars, readAt, lastCommit, calcVars, teamVars, poolVars, paidVars, served>>

\* CommissionModel.addPayment: ensure the balance row, insert the payment,
\* current_balance = total_commissions_earned - (total_payments_received + $1)
addPayment(userId, amount) ==
  /\ counts < MaxRequests
  /\ ~BalanceLocked(userId)
  /\ payments' = payments \cup {[id |-> nextId.payment, user_id |-> userId, amount |-> RoundCents(amount)]}
  /\ nextId' = [nextId EXCEPT !.payment = @ + 1]
  /\ LET row == IF user_balance[userId] = NoRow THEN ZeroBalance ELSE user_balance[userId]
     IN user_balance' = [user_balance EXCEPT ![userId] =
          [row EXCEPT !.total_payments_received = RoundCents(@ + amount),
                      !.current_balance = RoundCents(row.total_commissions_earned - (row.total_payments_received + amount))]]
  /\ counts' = counts + 1
  /\ UNCHANGED <<customers, commissions_due, runVars, version, readAt, lastCommit, calcVars, teamVars, payVars>>

\* CommissionModel.updatePayment
updatePayment(payment, amount) ==
  /\ counts < MaxRequests
  /\ payment \in payments
  /\ amount # 0
  /\ ~BalanceLocked(payment.user_id)
  /\ payments' = (payments \ {payment}) \cup {[payment EXCEPT !.amount = RoundCents(amount)]}
  /\ LET amountDifference == amount - payment.amount
     IN user_balance' = IF amountDifference # 0 /\ user_balance[payment.user_id] # NoRow
                        THEN [user_balance EXCEPT ![payment.user_id] = ApplyPaymentDelta(@, amountDifference)]
                        ELSE user_balance
  /\ counts' = counts + 1
  /\ UNCHANGED <<customers, commissions_due, nextId, runVars, version, readAt, lastCommit, calcVars, teamVars, payVars>>

\* CommissionModel.deletePayment
deletePayment(payment) ==
  /\ counts < MaxRequests
  /\ payment \in payments
  /\ ~BalanceLocked(payment.user_id)
  /\ payments' = payments \ {payment}
  /\ user_balance' = IF user_balance[payment.user_id] # NoRow
                     THEN [user_balance EXCEPT ![payment.user_id] = ApplyPaymentDelta(@, -payment.amount)]
                     ELSE user_balance
  /\ counts' = counts + 1
  /\ UNCHANGED <<customers, commissions_due, nextId, runVars, version, readAt, lastCommit, calcVars, teamVars, payVars>>

\* ------------------------------------------------------------------------
\* The ledger and its requests
\* ------------------------------------------------------------------------
CalcOff == [none |-> TRUE]
NoTeamTx == [state |-> "idle"]
TeamIds == {1}
\* new Pool({max: 20, ...}): no client connected yet; no pool request running
NoConns == <<>>
NoRequests == <<>>

InitDb ==
  /\ customers = (1 :> Job("Lead", 1, NoUser, 2, 30, NoUser))
  /\ commissions_due = {}
  /\ user_balance = [u \in DOMAIN AllUsers |-> NoRow]
  /\ payments = {}
  /\ nextId = [commission |-> 1, payment |-> 1]
  /\ pc = [p \in Procs |-> "idle"]
  /\ kind = [p \in Procs |-> "none"]
  /\ batch = [p \in Procs |-> <<>>]
  /\ existing = [p \in Procs |-> {}]
  /\ ops = [p \in Procs |-> NoOps]
  /\ tx = [p \in Procs |-> NoTx]
  /\ response = [p \in Procs |-> NoResponse]
  /\ counts = 0
  /\ version = 0
  /\ readAt = [p \in Procs |-> [version |-> -1, earned |-> <<>>]]
  /\ lastCommit = [batch |-> <<>>, version |-> -1, clean |-> FALSE]
  /\ user_team_membership = Memberships
  /\ teamTx = NoTeamTx
  /\ covered = {}
  /\ teams = TeamIds
  /\ conn = NoConns
  /\ idle = <<>>
  /\ rq = NoRequests
  /\ payment_commission_mapping = {}
  /\ is_paid = {}
  /\ cache = NoRow
  /\ served = NoRow

Init ==
  /\ InitDb
  /\ calcIn = CalcOff
  /\ calcOut = 0
  /\ calcPc = "off"

Next ==
  \/ \E p \in Procs, job \in JobShapes : SyncBegin(p, job)
  \/ \E p \in Procs : RecalcBegin(p, 1)
  \/ \E p \in Procs : RecalcSubtract(p)
  \/ \E p \in Procs : RecalcDelete(p)
  \/ \E p \in Procs : Reconcile(p)
  \/ \E p \in Procs : BulkInsert(p)
  \/ \E p \in Procs : BulkUpdate(p)
  \/ \E p \in Procs : EnsureBalances(p)
  \/ \E p \in Procs : BulkUpdateUserBalances(p)
  \/ \E p \in Procs : StatementFails(p)
  \/ \E p \in Procs : Commit(p)
  \/ \E p \in Procs : Rollback(p)
  \/ \E u \in AdminUsers, a \in AdminAmounts, f \in BOOLEAN : addCommission(u, 1, a, f)
  \/ \E r \in commissions_due, a \in AdminAmounts, f \in BOOLEAN : updateCommission(r, a, f)
  \/ \E r \in commissions_due : deleteCommission(r)
  \/ \E u \in AdminUsers, a \in PaymentAmounts : addPayment(u, a)
  \/ \E pay \in payments, a \in PaymentAmounts : updatePayment(pay, a)
  \/ \E pay \in payments : deletePayment(pay)

Spec == Init /\ [][Next]_vars

\* ------------------------------------------------------------------------
\* The formula engine on its own: one call on arguments drawn from bounded sets
\* ------------------------------------------------------------------------
Roles == {"Affiliate Marketer", "Salesman", "Sales Manager", "Supplement Manager", "Supplementer", "Office"}

\* Hire dates: none, a day short of 6 months, exactly 6, 7, 9 and 13 whole
\* months before the job, and after the job.
HireDates == {NoDate, MkDate(JobMonth - 6, 1), MkDate(JobMonth - 6, 0), MkDate(JobMonth - 7, 0), MkDate(JobMonth - 9, 0), MkDate(JobMonth - 13, 0), MkDate(JobMonth + 2, 0)}
MateHireDates == {NoDate, MkDate(JobMonth - 9, 0)}
\* Prices in cents: none, 30 cents, 10000 dollars, 12000 dollars, 100000 dollars.
InitialPrices == {0, 1000000}
TotalPrices == {0, 30, 1200000, 10000000}
CalcUserIds == <<1, 2>>
Subject == CalcUserIds[1]
Mate == CalcUserIds[2]

CalcStores ==
  { {},
    { [user_id |-> Subject, team_id |-> 1, role |-> "manager", joined_at |-> MkDate(JobMonth - 10, 0), left_at |-> NoDate],
      [user_id |-> Mate, team_id |-> 1, role |-> "salesman", joined_at |-> MkDate(JobMonth - 10, 0), left_at |-> NoDate] },
    { [user_id |-> Subject, team_id |-> 1, role |-> "manager", joined_at |-> MkDate(JobMonth - 10, 0), left_at |-> NoDate],
      [user_id |-> Mate, team_id |-> 1, role |-> "salesman", joined_at |-> MkDate(JobMonth + 1, 0), left_at |-> NoDate] },
    { [user_id |-> Subject, team_id |-> 1, role |-> "manager", joined_at |-> MkDate(JobMonth - 10, 0), left_at |-> JobDate],
      [user_id |-> Mate, team_id |-> 1, role |-> "salesman", joined_at |-> MkDate(JobMonth - 10, 0), left_at |-> NoDate] } }

CalcCustomers ==
  [salesman_id : {NoUser, Subject, Mate}, supplementer_id : {NoUser, Subject, Mate},
   manager_id : {NoUser, Subject}, supplement_manager_id : {NoUser},
   lead_source : LeadSources, initial_scope_price : InitialPrices,
   total_job_price : TotalPrices, going_to_appraisal : BOOLEAN,
   jn_date_added : {NoDate, JobDate}, created_at : {JobDate}]

CalcUsers(in) ==
  (Subject :> in.user) @@ (Mate :> [id |-> Mate, role |-> "Salesman", hire_date |-> in.mateHire])

InitCalc ==
  /\ InitDb
  /\ calcIn \in [user : [id : {Subject}, role : Roles, hire_date : HireDates],
                  customer : CalcCustomers, utm : CalcStores, mateHire : MateHireDates]
  /\ calcOut = 0
  /\ calcPc = "ready"

\* await calculateCommission(user, customer, null, true): the historical
\* lookup answers, or throws and leaves the team argument in place.
Calculate ==
  /\ calcPc = "ready"
  /\ LET creation == IF calcIn.customer.jn_date_added # NoDate THEN calcIn.customer.jn_date_added ELSE calcIn.customer.created_at
     IN \E historicalTeam \in getHistoricalTeamDataForCommission(calcIn.utm, CalcUsers(calcIn), Subject, creation) \cup {NoRow} :
          calcOut' = calculateCommission(calcIn.user, calcIn.customer, NoRow, historicalTeam, JobDate)
  /\ calcPc' = "done"
  /\ UNCHANGED <<calcIn, dbVars, runVars, histVars, teamVars, payVars>>

NextCalc == Calculate

SpecCalc == InitCalc /\ [][NextCalc]_vars

\* ------------------------------------------------------------------------
\* The team-membership store (models/teamModel.js and the team controller):
\* the writers of user_team_membership, and calculateCommission called again
\* while the table changes
\* ------------------------------------------------------------------------
\* Dates of joins, departures and backdated changes: before the job, the
\* job's creation date, after it.
TeamDates == {MkDate(JobMonth - 10, 0), JobDate, MkDate(JobMonth + 1, 0)}
TeamMembers == {[userId |-> Subject, role |-> "manager"], [userId |-> Mate, role |-> "salesman"]}

\* SELECT EXISTS(... user_id = $1 AND team_id = $2 AND joined_at <= $3 AND
\* (left_at IS NULL OR left_at > $3)).
wasUserOnTeamAtDate(utm, userId, teamId, targetDate) ==
  \E m \in utm : m.user_id = userId /\ m.team_id = teamId /\ CoversDate(m, targetDate)

\* INSERT ... ON CONFLICT (user_id, team_id) DO UPDATE SET role, joined_at,
\* left_at = NULL: the row of the pair is replaced.
UpsertMembership(utm, userId, teamId, role, joinedAt) ==
  {m \in utm : ~(m.user_id = userId /\ m.team_id = teamId)}
    \cup {[user_id |-> userId, team_id |-> teamId, role |-> role, joined_at |-> joinedAt, left_at |-> NoDate]}

\* The row of the pair carries an uncommitted UPDATE of the open transaction.
TeamRowLocked(userId, teamId) ==
  teamTx.state = "open" /\ <<userId, teamId>> \in teamTx.ended

\* Dates covered by the closed intervals of the table.
ClosedCoverage(utm) ==
  UNION {{<<m.user_id, m.team_id, d>> : d \in {x \in TeamDates : CoversDate(m, x)}} :
           m \in {x \in utm : x.left_at # NoDate}}

addUserToTeam(userId, teamId, role, joinedAt) ==
  /\ counts < MaxRequests
  /\ teamId \in teams
  /\ ~TeamRowLocked(userId, teamId)
  /\ user_team_membership' = UpsertMembership(user_team_membership, userId, teamId, role, joinedAt)
  /\ covered' = covered \cup ClosedCoverage(user_team_membership')
  /\ counts' = counts + 1
  /\ UNCHANGED <<dbVars, runVars, version, readAt, lastCommit, calcVars, teamTx, teams, payVars>>

\* UPDATE ... SET left_at = $3 WHERE user_id = $1 AND team_id = $2.
setUserTeamDepartureDate(userId, teamId, leftAt) ==
  /\ counts < MaxRequests
  /\ ~TeamRowLocked(userId, teamId)
  /\ user_team_membership' =
       {IF m.user_id = userId /\ m.team_id = teamId THEN [m EXCEPT !.left_at = leftAt] ELSE m :
          m \in user_team_membership}
  /\ covered' = covered \cup ClosedCoverage(user_team_membership')
  /\ counts' = counts + 1
  /\ UNCHANGED <<dbVars, runVars, version, readAt, lastCommit, calcVars, teamTx, teams, payVars>>

\* BEGIN on the client, then UPDATE ... SET left_at = $1 WHERE team_id = $2 AND
\* left_at IS NULL on the client: the active rows of the team are ended in the
\* open transaction and stay locked until it ends. A request for a team that
\* does not exist writes nothing: getTeamById answers 404, or the upserts
\* violate the foreign key and the request rolls back.
EndCurrentMemberships(teamId, memberships, date) ==
  /\ counts < MaxRequests
  /\ teamTx.state = "idle"
  /\ teamTx' = IF teamId \notin teams THEN teamTx
               ELSE [state |-> "open", teamId |-> teamId, date |-> date,
                     ended |-> {<<m.user_id, m.team_id>> :
                                  m \in {x \in user_team_membership : x.team_id = teamId /\ x.left_at = NoDate}},
                     todo |-> memberships, deleting |-> FALSE]
  /\ counts' = counts + 1
  /\ UNCHANGED <<dbVars, runVars, version, readAt, lastCommit, calcVars, user_team_membership, covered, teams, payVars>>

\* modifyTeam with manager_id and salesman_ids in the body: the memberships
\* are the manager and the salesmen, joined at effective_date.
modifyTeam(teamId, manager_id, salesman_ids, effective_date) ==
  EndCurrentMemberships(teamId,
    {[userId |-> manager_id, role |-> "manager"]}
      \cup {[userId |-> s, role |-> "salesman"] : s \in salesman_ids},
    effective_date)

bulkUpdateTeamMemberships(teamId, memberships, effectiveDate) ==
  EndCurrentMemberships(teamId, memberships, effectiveDate)

\* One of the addUserToTeamWithDate calls of Promise.all: a statement of the
\* pool, committed on its own; it waits while the row of the pair is locked
\* by the open transaction of the same request.
addUserToTeamWithDate ==
  /\ teamTx.state = "open"
  /\ \E m \in teamTx.todo :
       /\ ~TeamRowLocked(m.userId, teamTx.teamId)
       /\ user_team_membership' =
            UpsertMembership(user_team_membership, m.userId, teamTx.teamId, m.role, teamTx.date)
       /\ teamTx' = [teamTx EXCEPT !.todo = @ \ {m}]
  /\ covered' = covered \cup ClosedCoverage(user_team_membership')
  /\ UNCHANGED <<dbVars, runVars, histVars, calcVars, teams, payVars>>

\* removeTeam: BEGIN on the client; with preserveHistory the client ends the
\* active rows of the team in the open transaction, otherwise
\* removeAllUsersFromTeam deletes the rows of the team through the pool;
\* deleteTeam, a statement of the pool, is awaited next.
removeTeam(teamId, preserveHistory, effectiveDate) ==
  /\ counts < MaxRequests
  /\ teamTx.state = "idle"
  /\ teamTx' = IF teamId \notin teams THEN teamTx
               ELSE [state |-> "open", teamId |-> teamId, date |-> effectiveDate,
                     ended |-> IF preserveHistory
                               THEN {<<m.user_id, m.team_id>> :
                                       m \in {x \in user_team_membership : x.team_id = teamId /\ x.left_at = NoDate}}
                               ELSE {},
                     todo |-> {}, deleting |-> TRUE]
  /\ user_team_membership' = IF teamId \in teams /\ ~preserveHistory
                              THEN {m \in user_team_membership : m.team_id # teamId}
                              ELSE user_team_membership
  /\ counts' = counts + 1
  /\ UNCHANGED <<dbVars, runVars, version, readAt, lastCommit, calcVars, covered, teams, payVars>>

\* DELETE FROM teams WHERE id = $1 through the pool: team_id REFERENCES teams
\* ON DELETE CASCADE deletes the rows of the team with it, and waits while one
\* of them is locked by the open transaction of the same request.
deleteTeam ==
  /\ teamTx.state = "open"
  /\ teamTx.deleting
  /\ \A m \in user_team_membership : m.team_id = teamTx.teamId => ~TeamRowLocked(m.user_id, m.team_id)
  /\ teams' = teams \ {teamTx.teamId}
  /\ user_team_membership' = {m \in user_team_membership : m.team_id # teamTx.teamId}
  /\ teamTx' = [teamTx EXCEPT !.deleting = FALSE]
  /\ UNCHANGED <<dbVars, runVars, histVars, calcVars, covered, payVars>>

\* COMMIT once every statement of the pool has answered: the ended rows
\* become visible.
TeamCommit ==
  /\ teamTx.state = "open"
  /\ teamTx.todo = {}
  /\ ~teamTx.deleting
  /\ user_team_membership' =
       {IF <<m.user_id, m.team_id>> \in teamTx.ended THEN [m EXCEPT !.left_at = teamTx.date] ELSE m :
          m \in user_team_membership}
  /\ covered' = covered \cup ClosedCoverage(user_team_membership')
  /\ teamTx' = NoTeamTx
  /\ UNCHANGED <<dbVars, runVars, histVars, calcVars, teams, payVars>>

\* A statement fails (the connection drops, a waiting statement times out):
\* ROLLBACK undoes the client's UPDATE; the upserts of the pool stay.
TeamRollback ==
  /\ teamTx.state = "open"
  /\ teamTx' = NoTeamTx
  /\ UNCHANGED <<dbVars, runVars, histVars, calcVars, user_team_membership, covered, teams, payVars>>

\* calculateCommission(user, customer, null, true) called for the same user
\* and job whenever a run reconciles the job: the historical team is read
\* from the table as it is at the call.
CalculateAgain ==
  /\ LET creation == IF calcIn.customer.jn_date_added # NoDate THEN calcIn.customer.jn_date_added ELSE calcIn.customer.created_at
     IN \E historicalTeam \in getHistoricalTeamDataForCommission(user_team_membership, CalcUsers(calcIn), Subject, creation) :
          calcOut' = calculateCommission(calcIn.user, calcIn.customer, NoRow, historicalTeam, JobDate)
  /\ calcPc' = "done"
  /\ UNCHANGED <<calcIn, dbVars, runVars, histVars, teamVars, payVars>>

InitTeam ==
  /\ InitDb
  /\ calcIn \in [user : [id : {Subject}, role : {"Sales Manager", "Salesman"}, hire_date : {NoDate}],
                  customer : [salesman_id : {Mate}, supplementer_id : {NoUser}, manager_id : {NoUser},
                              supplement_manager_id : {NoUser}, lead_source : {"Referral"},
                              initial_scope_price : {0}, total_job_price : {2000000},
                              going_to_appraisal : {FALSE}, jn_date_added : {NoDate},
                              created_at : {JobDate}],
                  mateHire : {NoDate}]
  /\ calcOut = 0
  /\ calcPc = "ready"

NextTeam ==
  \/ \E m \in TeamMembers, t \in TeamIds, d \in TeamDates : addUserToTeam(m.userId, t, m.role, d)
  \/ \E m \in TeamMembers, t \in TeamIds, d \in TeamDates : setUserTeamDepartureDate(m.userId, t, d)
  \/ \E t \in TeamIds, s \in SUBSET {Mate}, d \in TeamDates : modifyTeam(t, Subject, s, d)
  \/ \E t \in TeamIds, ms \in SUBSET TeamMembers, d \in TeamDates : bulkUpdateTeamMemberships(t, ms, d)
  \/ addUserToTeamWithDate
  \/ TeamCommit
  \/ TeamRollback
  \/ CalculateAgain

SpecTeam == InitTeam /\ [][NextTeam]_vars

\* The team requests with removeTeam, under the scheduling Postgres and the
\* event loop give: a statement that waits for no lock is answered, and the
\* handler goes on to COMMIT once its awaited statements have answered.
\* Nothing makes a statement fail (the pool sets no statement or lock
\* timeout), so TeamRollback is never forced.
NextTeamFair ==
  \/ \E m \in TeamMembers, t \in TeamIds, d \in TeamDates : addUserToTeam(m.userId, t, m.role, d)
  \/ \E m \in TeamMembers, t \in TeamIds, d \in TeamDates : setUserTeamDepartureDate(m.userId, t, d)
  \/ \E t \in TeamIds, s \in SUBSET {Mate}, d \in TeamDates : modifyTeam(t, Subject, s, d)
  \/ \E t \in TeamIds, ms \in SUBSET TeamMembers, d \in TeamDates : bulkUpdateTeamMemberships(t, ms, d)
  \/ \E t \in TeamIds, h \in BOOLEAN, d \in TeamDates : removeTeam(t, h, d)
  \/ addUserToTeamWithDate
  \/ deleteTeam
  \/ TeamCommit
  \/ TeamRollback
  \/ CalculateAgain

SpecTeamFair ==
  /\ InitTeam
  /\ [][NextTeamFair]_vars
  /\ WF_vars(addUserToTeamWithDate)
  /\ WF_vars(deleteTeam)
  /\ WF_vars(TeamCommit)

\* C28: modifyTeam, bulkUpdateTeamMemberships and removeTeam with
\* preserveHistory always terminate: a request that has opened its
\* transaction eventually commits it or rolls it back.
C28_TeamRequestsTerminate == (teamTx.state = "open") ~> (teamTx.state = "idle")

\* ------------------------------------------------------------------------
\* The membership lookup on its own: one getUserTeamMembershipAtDate call on
\* a table and arguments drawn from bounded sets
\* ------------------------------------------------------------------------
LookupTeamIds == {1, 2}
\* The rows a pair (user, team) can hold: UNIQUE (user_id, team_id) allows one.
RowsOfPair(userId, teamId, role) ==
  [user_id : {userId}, team_id : {teamId}, role : {role},
   joined_at : TeamDates, left_at : {NoDate} \cup TeamDates]
LookupStores ==
  {a \cup b \cup c :
     a \in {{}} \cup {{r} : r \in RowsOfPair(Subject, 1, "manager")},
     b \in {{}} \cup {{r} : r \in RowsOfPair(Subject, 2, "salesman")},
     c \in {{}} \cup {{r} : r \in RowsOfPair(Mate, 1, "salesman")}}

InitLookup ==
  /\ InitDb
  /\ calcIn \in [utm : LookupStores, userId : {Subject, Mate}, targetDate : TeamDates]
  /\ calcOut = 0
  /\ calcPc = "ready"

\* await getUserTeamMembershipAtDate(userId, targetDate): result.rows[0].
LookupMembership ==
  /\ calcPc = "ready"
  /\ calcOut' \in getUserTeamMembershipAtDate(calcIn.utm, calcIn.userId, calcIn.targetDate)
  /\ calcPc' = "done"
  /\ UNCHANGED <<calcIn, dbVars, runVars, histVars, teamVars, payVars>>

NextLookup == LookupMembership

SpecLookup == InitLookup /\ [][NextLookup]_vars

\* ------------------------------------------------------------------------
\* Sync batches over a ledger an earlier sync has filled
\* ------------------------------------------------------------------------
\* The job as the earlier sync saw it (salesman 1, with or without the
\* referrer 2), at either price.
FoldPrices == {30, 3000}
EarlierJobs == {Job("Finalized", 1, NoUser, r, total, NoUser) : r \in {2, NoUser}, total \in FoldPrices}
\* What the feed says now: the salesman also supplements, or not.
FoldShapes ==
  {Job("Finalized", 1, s, 2, total, NoUser) : s \in {1, NoUser}, total \in FoldPrices}

\* commissions_due and user_balance as a committed sync of job leaves them
LedgerAfter(job) ==
  LET tasks == CommissionTasks(<<job>>, 1, AllUsers, {})
      o == ProcessTasks(tasks, 1, NoOps)
  IN [rows |-> {[id |-> i, user_id |-> o.create[i].user_id, customer_id |-> o.create[i].customer_id,
                 commission_amount |-> RoundCents(o.create[i].commission_amount),
                 admin_modified |-> FALSE] : i \in DOMAIN o.create},
      balance |-> [u \in DOMAIN AllUsers |->
                     IF u \in DOMAIN o.balance
                     THEN ApplyCommissionDelta(ZeroBalance, o.balance[u]) ELSE NoRow],
      next |-> Len(o.create) + 1]

InitFold ==
  /\ \E job \in EarlierJobs :
       /\ customers = (1 :> job)
       /\ commissions_due = LedgerAfter(job).rows
       /\ user_balance = LedgerAfter(job).balance
       /\ nextId = [commission |-> LedgerAfter(job).next, payment |-> 1]
  /\ payments = {}
  /\ pc = [p \in Procs |-> "idle"]
  /\ kind = [p \in Procs |-> "none"]
  /\ batch = [p \in Procs |-> <<>>]
  /\ existing = [p \in Procs |-> {}]
  /\ ops = [p \in Procs |-> NoOps]
  /\ tx = [p \in Procs |-> NoTx]
  /\ response = [p \in Procs |-> NoResponse]
  /\ counts = 0
  /\ version = 0
  /\ readAt = [p \in Procs |-> [version |-> -1, earned |-> <<>>]]
  /\ lastCommit = [batch |-> <<>>, version |-> -1, clean |-> FALSE]
  /\ user_team_membership = Memberships
  /\ teamTx = NoTeamTx
  /\ covered = {}
  /\ teams = TeamIds
  /\ conn = NoConns
  /\ idle = <<>>
  /\ rq = NoRequests
  /\ payment_commission_mapping = {}
  /\ is_paid = {}
  /\ cache = NoRow
  /\ served = NoRow
  /\ calcIn = CalcOff
  /\ calcOut = 0
  /\ calcPc = "off"

NextFold ==
  \/ \E p \in Procs, job \in FoldShapes : SyncBegin(p, job)
  \/ \E p \in Procs : Reconcile(p)
  \/ \E p \in Procs : BulkInsert(p)
  \/ \E p \in Procs : BulkUpdate(p)
  \/ \E p \in Procs : EnsureBalances(p)
  \/ \E p \in Procs : BulkUpdateUserBalances(p)
  \/ \E p \in Procs : StatementFails(p)
  \/ \E p \in Procs : Commit(p)
  \/ \E p \in Procs : Rollback(p)

SpecFold == InitFold /\ [][NextFold]_vars

\* ------------------------------------------------------------------------
\* Requests that send every statement with db.query, the pool's own query:
\* CommissionModel.addPayment and processCustomerCommission
\* ------------------------------------------------------------------------
\* clients the pool may connect (max), and the requests of the runs
Clients == {1, 2}
PayRequests == {1, 2}
RecomputeRequest == 3
PayUser == 2
PaymentOf == (1 :> 1000) @@ (2 :> 2000)
\* the job processCustomerCommission is called for: only a referrer is paid
FinalizedJob == Job("Finalized", NoUser, NoUser, PayUser, 3000, NoUser)

NewClient == [tx |-> "none", pay |-> {}, bal |-> <<>>, com |-> {}]
Tables == [user_balance |-> user_balance, payments |-> payments, commissions_due |-> commissions_due]

\* pool.connect / _pulseQueue: the idle client released last, else a new
\* client while fewer than max are connected, else the request waits
CanAcquire == idle # <<>> \/ DOMAIN conn # Clients
Acquired ==
  IF idle # <<>> THEN idle[Len(idle)]
  ELSE CHOOSE c \in Clients \ DOMAIN conn : \A d \in Clients \ DOMAIN conn : c <= d

\* What a statement on a client reads: the committed rows and the client's own
\* uncommitted ones.
SeenBalance(st, u) == IF u \in DOMAIN st.k.bal THEN st.k.bal[u] ELSE st.db.user_balance[u]
SeenPayments(st) == st.db.payments \cup st.k.pay
SeenCommissions(st) ==
  {r \in st.db.commissions_due : \A o \in st.k.com : o.id # r.id} \cup st.k.com

\* What it writes: into the open transaction of the client, else committed at once.
PutBalance(st, u, row) ==
  IF st.k.tx = "open" THEN [st EXCEPT !.k.bal = (u :> row) @@ @]
  ELSE [st EXCEPT !.db.user_balance[u] = row]
PutPayment(st, row) ==
  IF st.k.tx = "open" THEN [st EXCEPT !.k.pay = @ \cup {row}]
  ELSE [st EXCEPT !.db.payments = @ \cup {row}]
PutCommission(st, row) ==
  IF st.k.tx = "open" THEN [st EXCEPT !.k.com = {o \in @ : o.id # row.id} \cup {row}]
  ELSE [st EXCEPT !.db.commissions_due = {o \in @ : o.id # row.id} \cup {row}]

\* BEGIN (a warning and nothing else inside a transaction), COMMIT, ROLLBACK
BeginTx(st) == IF st.k.tx = "none" THEN [st EXCEPT !.k.tx = "open"] ELSE st
CommitTx(st) ==
  IF st.k.tx = "open"
  THEN [k |-> NewClient,
        db |-> [user_balance |-> [u \in DOMAIN st.db.user_balance |-> SeenBalance(st, u)],
                payments |-> SeenPayments(st),
                commissions_due |-> SeenCommissions(st)]]
  ELSE [st EXCEPT !.k = NewClient]
RollbackTx(st) == [st EXCEPT !.k = NewClient]

SumAmounts(rows, field) ==
  LET RECURSIVE Sum(_)
      Sum(S) == IF S = {} THEN 0
                ELSE LET x == CHOOSE y \in S : TRUE IN x[field] + Sum(S \ {x})
  IN Sum(rows)

\* INSERT INTO user_balance ... VALUES ($1, 0, 0, 0) ON CONFLICT (user_id) DO NOTHING
EnsureBalanceRow(st, u) ==
  IF SeenBalance(st, u) = NoRow THEN PutBalance(st, u, ZeroBalance) ELSE st
\* UPDATE user_balance SET total_payments_received = total_payments_received + $1,
\* current_balance = total_commissions_earned - (total_payments_received + $1)
AddReceived(st, u, amount) ==
  IF SeenBalance(st, u) = NoRow THEN st
  ELSE LET row == SeenBalance(st, u)
       IN PutBalance(st, u,
            [row EXCEPT !.total_payments_received = RoundCents(@ + amount),
                        !.current_balance = RoundCents(row.total_commissions_earned
                                                       - (row.total_payments_received + amount))])
\* INSERT INTO commissions_due ... ON CONFLICT (user_id, customer_id) DO UPDATE
\* SET commission_amount = $3
UpsertCommission(st, id, u, customerId, commission) ==
  LET old == {r \in SeenCommissions(st) : r.user_id = u /\ r.customer_id = customerId}
  IN IF old = {}
     THEN PutCommission(st, [id |-> id, user_id |-> u, customer_id |-> customerId,
                             commission_amount |-> RoundCents(commission), admin_modified |-> FALSE])
     ELSE PutCommission(st, [(CHOOSE r \in old : TRUE) EXCEPT !.commission_amount = RoundCents(commission)])
\* INSERT INTO user_balance (user_id, total_commissions_earned, current_balance)
\* SELECT $1, SUM(cd.commission_amount), SUM(cd.commission_amount) - (SELECT
\* SUM(amount) FROM payments ...) FROM commissions_due cd WHERE cd.user_id = $1
\* GROUP BY cd.user_id ON CONFLICT (user_id) DO UPDATE SET
\* total_commissions_earned = EXCLUDED..., current_balance = EXCLUDED...
RecomputeBalance(st, u) ==
  LET rows == {r \in SeenCommissions(st) : r.user_id = u}
      earned == SumAmounts(rows, "commission_amount")
      paid == SumAmounts({p \in SeenPayments(st) : p.user_id = u}, "amount")
  IN IF rows = {} THEN st
     ELSE IF SeenBalance(st, u) = NoRow
     THEN PutBalance(st, u, [total_commissions_earned |-> earned, total_payments_received |-> 0,
                             current_balance |-> earned - paid])
     ELSE PutBalance(st, u, [SeenBalance(st, u) EXCEPT !.total_commissions_earned = earned,
                                                     !.current_balance = earned - paid])

\* Row locks on user_balance: another client's open transaction has written
\* the user's row.  An uncommitted INSERT makes an INSERT of the same key wait
\* and is invisible to an UPDATE; an uncommitted UPDATE makes an UPDATE wait.
HeldByOther(c, u) == \E d \in DOMAIN conn \ {c} : u \in DOMAIN conn[d].bal
Waits(c, statement, u) ==
  CASE statement = "ensure" -> HeldByOther(c, u) /\ user_balance[u] = NoRow
    [] statement = "update" -> HeldByOther(c, u) /\ user_balance[u] # NoRow
    [] statement = "upsertBalance" -> HeldByOther(c, u)
    [] OTHER -> FALSE

\* the statements of the two functions, in the order they are awaited
NextStatement(kindOf, statement) ==
  IF kindOf = "addPayment"
  THEN CASE statement = "begin" -> "ensure"
         [] statement = "ensure" -> "insert"
         [] statement = "insert" -> "update"
         [] statement = "update" -> "commit"
         [] statement = "commit" -> "returned"
         [] statement = "rollback" -> "thrown"
  ELSE CASE statement = "begin" -> "selectUser"
         [] statement = "selectUser" -> "selectTeam"
         [] statement = "selectTeam" -> "upsertCommission"
         [] statement = "upsertCommission" -> "upsertBalance"
         [] statement = "upsertBalance" -> "commit"
         [] statement = "commit" -> "returned"
         [] statement = "rollback" -> "thrown"
Finished(r) == r \in DOMAIN rq /\ rq[r].pc \in {"returned", "thrown"}

\* the effect of request r's statement on the client it was sent on
Effect(r, st) ==
  LET q == rq[r]
  IN CASE q.pc = "begin" -> BeginTx(st)
       [] q.pc = "ensure" -> EnsureBalanceRow(st, q.user)
       [] q.pc = "insert" -> PutPayment(st, [id |-> nextId.payment, user_id |-> q.user, amount |-> q.amount])
       [] q.pc = "update" -> AddReceived(st, q.user, q.amount)
       [] q.pc = "upsertCommission" ->
            UpsertCommission(st, nextId.commission, q.user, FinalizedJob.id,
                             TaskAmount([customerId |-> FinalizedJob.id, userId |-> q.user,
                                         customer |-> FinalizedJob, user |-> AllUsers[q.user],
                                         existingCommission |-> NoRow]))
       [] q.pc = "upsertBalance" -> RecomputeBalance(st, q.user)
       [] q.pc = "commit" -> CommitTx(st)
       [] q.pc = "rollback" -> RollbackTx(st)
       [] OTHER -> st

\* the statement raises: the transaction of its client, if one is open, has
\* failed earlier, or the payment row is refused (payment_type CHECK)
Raises(r, st) ==
  /\ rq[r].pc \notin {"commit", "rollback"}
  /\ \/ st.k.tx = "aborted"
     \/ rq[r].pc = "insert" /\ rq[r].refused

\* addPayment(paymentData) is called
StartAddPayment(r, refused) ==
  /\ r \in PayRequests \ DOMAIN rq
  /\ rq' = rq @@ (r :> [kind |-> "addPayment", pc |-> "begin", client |-> 0, user |-> PayUser,
                        amount |-> PaymentOf[r], refused |-> refused, before |-> {}])
  /\ UNCHANGED <<dbVars, runVars, histVars, calcVars, teamVars, conn, idle, paidVars, cacheVars>>

\* processCustomerCommission(customer, oldStatus), status Finalized, oldStatus not
StartProcessCustomerCommission ==
  /\ RecomputeRequest \notin DOMAIN rq
  /\ customers[FinalizedJob.id].status # "Finalized"
  /\ rq' = rq @@ (RecomputeRequest :>
                    [kind |-> "processCustomerCommission", pc |-> "begin", client |-> 0,
                     user |-> PayUser, amount |-> 0, refused |-> FALSE,
                     before |-> {r \in DOMAIN rq : Finished(r)}])
  /\ UNCHANGED <<dbVars, runVars, histVars, calcVars, teamVars, conn, idle, paidVars, cacheVars>>

\* db.query(...): the pool hands the statement a client
SendStatement(r) ==
  /\ r \in DOMAIN rq /\ ~Finished(r) /\ rq[r].client = 0
  /\ CanAcquire
  /\ rq' = [rq EXCEPT ![r].client = Acquired]
  /\ idle' = IF idle # <<>> THEN SubSeq(idle, 1, Len(idle) - 1) ELSE idle
  /\ conn' = IF idle # <<>> THEN conn ELSE conn @@ (Acquired :> NewClient)
  /\ UNCHANGED <<dbVars, runVars, histVars, calcVars, teamVars, paidVars, cacheVars>>

\* the statement runs and its promise settles; the client goes back to the
\* idle list; a rejection takes the request to its catch block
StatementSettles(r) ==
  /\ r \in DOMAIN rq /\ rq[r].client # 0
  /\ LET c == rq[r].client
         st == [k |-> conn[c], db |-> Tables]
         raises == Raises(r, st)
         after == IF raises
                  THEN [st EXCEPT !.k.tx = IF @ = "none" THEN "none" ELSE "aborted"]
                  ELSE Effect(r, st)
     IN /\ ~Waits(c, rq[r].pc, rq[r].user)
        /\ conn' = [conn EXCEPT ![c] = after.k]
        /\ user_balance' = after.db.user_balance
        /\ payments' = after.db.payments
        /\ commissions_due' = after.db.commissions_due
        /\ nextId' = [commission |-> IF ~raises /\ rq[r].pc = "upsertCommission" /\
                                        Cardinality(SeenCommissions(after)) > Cardinality(SeenCommissions(st))
                                     THEN nextId.commission + 1 ELSE nextId.commission,
                      payment |-> IF ~raises /\ rq[r].pc = "insert"
                                  THEN nextId.payment + 1 ELSE nextId.payment]
        /\ rq' = [rq EXCEPT ![r].client = 0,
                            ![r].pc = IF raises THEN "rollback" ELSE NextStatement(rq[r].kind, @)]
  /\ idle' = Append(idle, rq[r].client)
  /\ UNCHANGED <<customers, runVars, histVars, calcVars, teamVars, paidVars, cacheVars>>

\* the tables before the requests: empty, or as a committed sync of the job
\* with its referrer left them
InitPay ==
  /\ InitDb
  /\ calcIn = CalcOff
  /\ calcOut = 0
  /\ calcPc = "off"

NextPay ==
  \/ \E r \in PayRequests, refused \in BOOLEAN : StartAddPayment(r, refused)
  \/ StartProcessCustomerCommission
  \/ \E r \in PayRequests \cup {RecomputeRequest} : SendStatement(r)
  \/ \E r \in PayRequests \cup {RecomputeRequest} : StatementSettles(r)

SpecPay == InitPay /\ [][NextPay]_vars

\* ------------------------------------------------------------------------
\* Admin requests statement by statement, and deleteCustomer
\* ------------------------------------------------------------------------
AdminRequests == {1, 2}
UpdateAmounts == (1 :> 700) @@ (2 :> 900)

\* updateCommission up to its first await: getCommissionDueById(id); 404 when
\* the row is not there
StartUpdateCommission(q, originalCommission, adminModified) ==
  /\ q \in AdminRequests \ DOMAIN rq
  /\ originalCommission \in commissions_due
  /\ rq' = rq @@ (q :> [kind |-> "updateCommission", pc |-> "updateCommissionDue", client |-> 0,
                        original |-> originalCommission, amount |-> UpdateAmounts[q],
                        admin_modified |-> adminModified])
  /\ UNCHANGED <<dbVars, runVars, histVars, calcVars, teamVars, conn, idle, paidVars, cacheVars>>

\* CommissionModel.updateCommissionDue(id, commissionData): UPDATE ... WHERE id = $5
UpdateCommissionDue(q) ==
  /\ q \in DOMAIN rq /\ rq[q].pc = "updateCommissionDue"
  /\ commissions_due' =
       {IF r.id = rq[q].original.id
        THEN [r EXCEPT !.commission_amount = RoundCents(rq[q].amount), !.admin_modified = rq[q].admin_modified]
        ELSE r : r \in commissions_due}
  /\ rq' = [rq EXCEPT ![q].pc = "updateUserBalance"]
  /\ version' = version + 1
  /\ UNCHANGED <<customers, user_balance, payments, nextId, runVars, counts, readAt, lastCommit, calcVars, teamVars, conn, idle, paidVars, cacheVars>>

\* amountDifference = commissionData.commission_amount - originalCommission.commission_amount;
\* if (amountDifference !== 0) await updateUserBalanceOnCommissionChange(...)
UpdateCommissionBalance(q) ==
  /\ q \in DOMAIN rq /\ rq[q].pc = "updateUserBalance"
  /\ LET amountDifference == rq[q].amount - rq[q].original.commission_amount
     IN /\ user_balance' = IF amountDifference # 0
                           THEN updateUserBalanceOnCommissionChange(user_balance, rq[q].original.user_id, amountDifference)
                           ELSE user_balance
        /\ cache' = IF amountDifference # 0 THEN NoRow ELSE cache
  /\ rq' = [rq EXCEPT ![q].pc = "returned"]
  /\ UNCHANGED <<customers, commissions_due, payments, nextId, runVars, histVars, calcVars, teamVars, conn, idle, paidVars, served>>

\* CustomerModel.deleteCustomer(id): the customer's commission rows (and their
\* payment mappings) are deleted, then the customer; user_balance is not touched
deleteCustomer(id) ==
  /\ customers[id] # NoRow
  /\ commissions_due' = {r \in commissions_due : r.customer_id # id}
  /\ customers' = [customers EXCEPT ![id] = NoRow]
  /\ version' = version + 1
  /\ UNCHANGED <<user_balance, payments, nextId, runVars, counts, readAt, lastCommit, calcVars, teamVars, payVars>>

NextAdmin ==
  \/ \E u \in AdminUsers, a \in AdminAmounts, f \in BOOLEAN : customers[1] # NoRow /\ addCommission(u, 1, a, f)
  \/ \E r \in commissions_due : deleteCommission(r)
  \/ \E q \in AdminRequests, r \in commissions_due, f \in BOOLEAN : StartUpdateCommission(q, r, f)
  \/ \E q \in AdminRequests : UpdateCommissionDue(q)
  \/ \E q \in AdminRequests : UpdateCommissionBalance(q)
  \/ \E id \in DOMAIN customers : deleteCustomer(id)

\* the tables as committed syncs left them
SpecAdmin == InitFold /\ [][NextAdmin]_vars

\* ------------------------------------------------------------------------
\* Payments with their commission mappings, one request after the other
\* ------------------------------------------------------------------------
\* req.body.commission_due_ids of an addPayment request
CommissionIdLists == SUBSET {1, 2}

\* CommissionModel.addPaymentCommissionMapping: INSERT INTO
\* payment_commission_mapping, UPDATE commissions_due SET is_paid = true
MappingAdded(mappings, paid, paymentId, commissionIds) ==
  [mappings |-> mappings \cup {[payment_id |-> paymentId, commission_due_id |-> c] : c \in commissionIds},
   paid |-> paid \cup commissionIds]

\* CommissionController.addPayment: CommissionModel.addPayment, then for every
\* id of commission_due_ids whose row getCommissionDueById finds, a mapping
AddPaymentRequest(userId, amount, commission_due_ids) ==
  /\ counts < MaxRequests
  /\ LET st == [k |-> NewClient, db |-> Tables]
         newPayment == [id |-> nextId.payment, user_id |-> userId, amount |-> RoundCents(amount)]
         after == AddReceived(PutPayment(EnsureBalanceRow(st, userId), newPayment), userId, amount)
         found == {c \in commission_due_ids : \E r \in commissions_due : r.id = c}
         mapped == MappingAdded(payment_commission_mapping, is_paid, newPayment.id, found)
     IN /\ user_balance' = after.db.user_balance
        /\ payments' = after.db.payments
        /\ payment_commission_mapping' = mapped.mappings
        /\ is_paid' = mapped.paid
  /\ nextId' = [nextId EXCEPT !.payment = @ + 1]
  /\ counts' = counts + 1
  /\ UNCHANGED <<customers, commissions_due, runVars, version, readAt, lastCommit, calcVars, teamVars, poolVars, cacheVars>>

\* CommissionModel.addPaymentCommissionMapping({payment_id, commission_due_id, ...})
AddPaymentCommissionMapping(payment, commission) ==
  /\ counts < MaxRequests
  /\ payment \in payments /\ commission \in commissions_due
  /\ LET mapped == MappingAdded(payment_commission_mapping, is_paid, payment.id, {commission.id})
     IN /\ payment_commission_mapping' = mapped.mappings
        /\ is_paid' = mapped.paid
  /\ counts' = counts + 1
  /\ UNCHANGED <<dbVars, runVars, version, readAt, lastCommit, calcVars, teamVars, poolVars, cacheVars>>

\* CommissionModel.deletePayment: DELETE FROM payments, DELETE FROM
\* payment_commission_mapping WHERE payment_id = $1, UPDATE user_balance
DeletePaymentRequest(payment) ==
  /\ counts < MaxRequests
  /\ payment \in payments
  /\ payments' = payments \ {payment}
  /\ payment_commission_mapping' = {m \in payment_commission_mapping : m.payment_id # payment.id}
  /\ user_balance' = IF user_balance[payment.user_id] # NoRow
                     THEN [user_balance EXCEPT ![payment.user_id] = ApplyPaymentDelta(@, -payment.amount)]
                     ELSE user_balance
  /\ counts' = counts + 1
  /\ UNCHANGED <<customers, commissions_due, nextId, runVars, version, readAt, lastCommit, calcVars, teamVars, poolVars, is_paid, cacheVars>>

NextPaid ==
  \/ \E u \in DOMAIN AllUsers, a \in PaymentAmounts, ids \in CommissionIdLists : AddPaymentRequest(u, a, ids)
  \/ \E pay \in payments, r \in commissions_due : AddPaymentCommissionMapping(pay, r)
  \/ \E pay \in payments : DeletePaymentRequest(pay)

SpecPaid == InitFold /\ [][NextPaid]_vars

\* ------------------------------------------------------------------------
\* getAllUserBalances and the cache of commissionController
\* ------------------------------------------------------------------------
\* getCachedOrFetch('all_user_balances', fetch, 60000): the cached data while
\* the entry is younger than the ttl, else the fetched list, which is cached
getAllUserBalances ==
  /\ served' = [data |-> IF cache # NoRow THEN cache.data ELSE user_balance,
                committed |-> user_balance]
  /\ cache' = IF cache # NoRow THEN cache ELSE [data |-> user_balance]
  /\ UNCHANGED <<dbVars, runVars, histVars, calcVars, teamVars, poolVars, paidVars>>

\* Date.now() - cached.timestamp reaches the ttl: the entry is fetched anew
CacheExpires ==
  /\ cache # NoRow
  /\ cache' = NoRow
  /\ UNCHANGED <<dbVars, runVars, histVars, calcVars, teamVars, poolVars, paidVars, served>>

NextCache ==
  \/ getAllUserBalances
  \/ CacheExpires
  \/ \E p \in Procs, job \in FoldShapes : SyncBegin(p, job)
  \/ \E p \in Procs : Reconcile(p)
  \/ \E p \in Procs : BulkInsert(p)
  \/ \E p \in Procs : BulkUpdate(p)
  \/ \E p \in Procs : EnsureBalances(p)
  \/ \E p \in Procs : BulkUpdateUserBalances(p)
  \/ \E p \in Procs : Commit(p)
  \/ \E p \in Procs : Rollback(p)
  \/ \E u \in AdminUsers, a \in AdminAmounts, f \in BOOLEAN : addCommission(u, 1, a, f)
  \/ \E r \in commissions_due, a \in AdminAmounts, f \in BOOLEAN : updateCommission(r, a, f)
  \/ \E r \in commissions_due : deleteCommission(r)
  \/ \E u \in AdminUsers, a \in PaymentAmounts : addPayment(u, a)
  \/ \E pay \in payments, a \in PaymentAmounts : updatePayment(pay, a)
  \/ \E pay \in payments : deletePayment(pay)

SpecCache == Init /\ [][NextCache]_vars

\* ------------------------------------------------------------------------
\* The formula engine on jobs whose row was created after the job entered
\* JobNimbus: jn_date_added and created_at differ
\* ------------------------------------------------------------------------
\* created_at: the job's date, or 7 months later (the row was imported late).
ImportDates == {JobDate, MkDate(JobMonth + 7, 0)}

InitDates ==
  /\ InitDb
  /\ calcIn \in [user : [id : {Subject}, role : {"Salesman", "Sales Manager"},
                         hire_date : {NoDate, MkDate(JobMonth - 9, 0)}],
                  customer : [salesman_id : {Subject, Mate}, supplementer_id : {NoUser},
                              manager_id : {NoUser}, supplement_manager_id : {NoUser},
                              lead_source : LeadSources, initial_scope_price : {0},
                              total_job_price : {1200000}, going_to_appraisal : {FALSE},
                              jn_date_added : {NoDate, JobDate}, created_at : ImportDates],
                  utm : CalcStores,
                  mateHire : {NoDate, MkDate(JobMonth - 3, 0)}]
  /\ calcOut = 0
  /\ calcPc = "ready"

SpecDates == InitDates /\ [][NextCalc]_vars

\* ------------------------------------------------------------------------
\* Claims
\* ------------------------------------------------------------------------
\* C1: after any balance-mutating operation, every user's current_balance
\* equals total_commissions_earned - total_payments_received.
C1_LedgerInvariant ==
  \A u \in DOMAIN user_balance :
    user_balance[u] # NoRow =>
      user_balance[u].current_balance =
        user_balance[u].total_commissions_earned - user_balance[u].total_payments_received

\* A run whose batch is computed and whose transaction is still open.
Computed(p) == pc[p] \in {"insert", "update", "ensure", "balance", "commit"}

\* The last committed run read the tables as they still are when p reads them,
\* and worked on the same finalized jobs: p is a second run with nothing changed.
SecondRunUnchanged(p) ==
  /\ kind[p] = "sync"
  /\ batch[p] # <<>>
  /\ lastCommit.clean
  /\ lastCommit.batch = batch[p]
  /\ lastCommit.version = readAt[p].version

\* C2: a second bulkProcessCommissions run over the same finalized jobs, with
\* nothing changed since the first committed run, queues no create op, no
\* update op and no balance delta.
C2_SecondRunQueuesNothing ==
  \A p \in Procs :
    (Computed(p) /\ SecondRunUnchanged(p)) =>
      /\ ops[p].create = <<>>
      /\ ops[p].update = <<>>
      /\ DOMAIN ops[p].balance = {}

\* A second run that found the rows of the first and is about to commit.
C2_Witness ==
  \E p \in Procs :
    /\ pc[p] = "commit"
    /\ SecondRunUnchanged(p)
    /\ \E r \in existing[p] : ~r.admin_modified /\ r.commission_amount # TaskAmount([customer |-> batch[p][1], user |-> AllUsers[r.user_id]])

\* C3: two concurrent syncCustomers runs over a job whose stored amount differs
\* from the computed one count the delta once: after both have committed, the
\* user's total_commissions_earned has changed by newAmount - oldAmount.
C3_DeltaCountedOnce ==
  ( /\ \A p \in Procs : pc[p] = "committed" /\ kind[p] = "sync"
    /\ existing[1] = existing[2]
    /\ ops[1] = ops[2]
    /\ ops[1].update # <<>>
    /\ readAt[1] = readAt[2]
    /\ version = readAt[1].version + 2 )
  => \A u \in DOMAIN ops[1].balance :
       user_balance[u].total_commissions_earned = RoundCents(readAt[1].earned[u] + ops[1].balance[u])

\* C4: a stored row with admin_modified = TRUE is never placed in the update
\* ops of a batch and adds nothing to its user's balance delta, however far
\* the computed amount is from the stored one.
C4_AdminRowsSkipped ==
  \A p \in Procs :
    Computed(p) =>
      \A r \in existing[p] :
        r.admin_modified =>
          /\ \A i \in DOMAIN ops[p].update : ops[p].update[i].id # r.id
          /\ r.user_id \notin DOMAIN ops[p].balance

\* A batch that met an admin-modified row far from the computed amount, and
\* still queued work for another user.
C4_Witness ==
  \E p \in Procs :
    /\ Computed(p)
    /\ DOMAIN ops[p].balance # {}
    /\ \E r \in existing[p] :
         /\ r.admin_modified
         /\ r.user_id \in {batch[p][1].salesman_id, batch[p][1].referrer_id}
         /\ Significant(TaskAmount([customer |-> batch[p][1], user |-> AllUsers[r.user_id]]) - r.commission_amount)

\* C5: a row with admin_modified = TRUE outlives every syncCustomers and
\* recalculateCustomerCommissions run with its amount and its flag.
C5_AdminRowsImmutable ==
  [][\A p \in Procs :
       (pc[p] = "commit" /\ pc'[p] = "committed") =>
         \A r \in commissions_due : r.admin_modified => r \in commissions_due']_vars

\* C6: the create ops of one batch hold at most one entry per (user_id,
\* customer_id), also when one user fills several role slots of the job, and
\* the table never stores two rows for one pair.
C6_OneCreatePerPair ==
  /\ \A p \in Procs :
       Computed(p) =>
         \A i, j \in DOMAIN ops[p].create : SameKey(ops[p].create[i], ops[p].create[j]) => i = j
  /\ \A r, q \in commissions_due : SameKey(r, q) => r = q

\* C7: a sync batch is all-or-nothing: no statement of a syncCustomers run
\* changes the committed commission rows or balances before its COMMIT, so a
\* run whose insert, update or balance update fails leaves nothing behind.
C7_AllOrNothing ==
  [][\A p \in Procs :
       (kind[p] = "sync" /\ pc[p] # pc'[p] /\ pc'[p] # "committed" /\ ~Resting(p)) =>
         (commissions_due' = commissions_due /\ user_balance' = user_balance)]_vars

\* A sync run alone on the system: its insert ran (the sequence moved), a
\* later statement failed, ROLLBACK ran, and no row and no balance is there.
C7_Witness ==
  \E p \in Procs :
    /\ kind[p] = "sync" /\ pc[p] = "rolledback"
    /\ \A q \in Procs \ {p} : pc[q] = "idle"
    /\ counts = 1
    /\ DOMAIN ops[p].balance # {}
    /\ nextId.commission > 1
    /\ commissions_due = {}
    /\ \A u \in DOMAIN user_balance : user_balance[u] = NoRow

\* The role slots of the customers of a batch: <<customer, user id>>.
SlotsOfBatch(p) ==
  {<<batch[p][i], Slots(batch[p][i])[k]>> : i \in DOMAIN batch[p], k \in 1..5}

Queued(p, customer, userId) ==
  \/ \E i \in DOMAIN ops[p].create :
       ops[p].create[i].user_id = userId /\ ops[p].create[i].customer_id = customer.id
  \/ \E i \in DOMAIN ops[p].update : \E r \in existing[p] :
       r.id = ops[p].update[i].id /\ r.user_id = userId /\ r.customer_id = customer.id

Recorded(p, customer, userId) ==
  \E i \in DOMAIN ops[p].errors :
    ops[p].errors[i].userId = userId /\ ops[p].errors[i].customerId = customer.id

\* A slot of a known user whose calculation fails is recorded; every other
\* slot of a known user with a positive amount and no stored row, or a stored
\* row more than a cent away, has its op queued.
FailuresRecordedOthersQueued(p) ==
  \A s \in SlotsOfBatch(p) :
    LET customer == s[1]
        userId == s[2]
        stored == ExistingFor(existing[p], customer.id, userId)
        amount == TaskAmount([customer |-> customer, user |-> AllUsers[userId]])
    IN (userId \in DOMAIN AllUsers /\ (stored = NoRow \/ ~stored.admin_modified)) =>
         IF customer.rejects = userId
         THEN Recorded(p, customer, userId)
         ELSE (amount > 0 /\ (stored = NoRow \/ Abs(amount - stored.commission_amount) > Cent))
              => Queued(p, customer, userId)

MissingUserSlots(p) ==
  {s \in SlotsOfBatch(p) : s[2] # NoUser /\ s[2] \notin DOMAIN AllUsers}

CalcRoles == {"Affiliate Marketer", "Salesman", "Sales Manager", "Supplement Manager", "Supplementer"}

\* C9: with initial_scope_price = 0 and total_job_price = 0 calculateCommission
\* returns 0 for each of the five roles, every lead source and team context.
C9_ZeroPricesZeroCommission ==
  ( /\ calcPc = "done"
    /\ calcIn.user.role \in CalcRoles
    /\ calcIn.customer.initial_scope_price = 0
    /\ calcIn.customer.total_job_price = 0 )
  => calcOut = 0

\* A finished call for a Salesman hired exactly 6 whole months before the job.
SixMonthSalesman ==
  /\ calcPc = "done"
  /\ calcIn.user.role = "Salesman"
  /\ calcIn.user.hire_date = MkDate(JobMonth - 6, 0)

\* INSCOPE plus margin bonus with the percentages pct of a tier.
TierAmount(pct, customer) ==
  LET initial == customer.initial_scope_price
      total == customer.total_job_price
      effectivePrice == IF initial = 0 THEN total ELSE initial
      bonus == IF initial > 0 /\ total > 0 THEN 4 * (total - initial) ELSE 0
  IN pct[customer.lead_source] * effectivePrice
     - (IF customer.lead_source = "Canvassing - Company" THEN 300 * Dollar ELSE 0) + bonus

UpToSixPercent ==
  [l \in LeadSources |->
     CASE l = "Canvassing - Salesman" -> 10 [] l = "Canvassing - Company" -> 8
       [] l = "Affiliate" -> 6 [] l = "Referral" -> 10 [] OTHER -> 8]
SixToTwelvePercent ==
  [l \in LeadSources |->
     CASE l = "Canvassing - Salesman" -> 13 [] l = "Canvassing - Company" -> 10
       [] l = "Affiliate" -> 8 [] l = "Referral" -> 10 [] OTHER -> 10]

\* C10 (amended): a Salesman whose job was created exactly 6 whole months
\* after the hire date is paid the percentages of the tier up to 6 months
\* (10% / 8% - $300 / 6% / 10% / 8%); the 6-12 month tier starts at 7 months.
C10_SixMonthsIsFirstTier ==
  SixMonthSalesman => calcOut = TierAmount(UpToSixPercent, calcIn.customer)

\* C10: a Salesman whose job was created exactly 6 whole months after the
\* hire date is paid the 6-12 month percentages (13% / 10% - $300 / 8% /
\* 10% / 10%), not those of the tier up to 6 months.
C10_SixMonthsIsSecondTier ==
  SixMonthSalesman => calcOut = TierAmount(SixToTwelvePercent, calcIn.customer)

C10_Witness ==
  /\ SixMonthSalesman
  /\ calcIn.customer.lead_source = "Canvassing - Salesman"
  /\ calcIn.customer.initial_scope_price = 0
  /\ calcIn.customer.total_job_price > 0
  /\ calcOut = 10 * calcIn.customer.total_job_price

\* C11: calculateCommission returns an amount >= 0 for each of the five
\* roles, every lead source, every tenure and all non-negative prices.
C11_NonNegative ==
  (calcPc = "done" /\ calcIn.user.role \in CalcRoles) => calcOut >= 0

\* C12: calculateCommission is deterministic on its arguments: a call with
\* the same user, the same job and the same passed-in team context as the
\* call before it returns the same amount, whatever happened to the
\* team-membership table in between.
C12_SameArgumentsSameAmount ==
  [][(calcPc = "done" /\ calcPc' = "done" /\ calcIn' = calcIn) => calcOut' = calcOut]_vars

\* C17: membership history is append-only and keeps re-joins: a date that was
\* covered by a closed interval of user U on team T is still answered with
\* membership on T by wasUserOnTeamAtDate and with a row by
\* getUserTeamMembershipAtDate, whatever writes followed.
C17_HistoryKept ==
  \A c \in covered :
    /\ wasUserOnTeamAtDate(user_team_membership, c[1], c[2], c[3])
    /\ NoRow \notin getUserTeamMembershipAtDate(user_team_membership, c[1], c[3])

\* A finished call for a Sales Manager hired after the job's creation date
\* who holds none of the job's four role assignments.
LateUnassignedSalesManager ==
  /\ calcPc = "done"
  /\ calcIn.user.role = "Sales Manager"
  /\ calcIn.user.hire_date # NoDate
  /\ calcIn.user.hire_date >
       (IF calcIn.customer.jn_date_added # NoDate
        THEN calcIn.customer.jn_date_added ELSE calcIn.customer.created_at)
  /\ calcIn.customer.salesman_id # calcIn.user.id
  /\ calcIn.customer.supplementer_id # calcIn.user.id
  /\ calcIn.customer.manager_id # calcIn.user.id
  /\ calcIn.customer.supplement_manager_id # calcIn.user.id

\* C13: a Sales Manager hired after the job's creation date and not assigned
\* to the job in any role gets 0, even when the job's salesman is a member of
\* the manager's historical team.
C13_LateManagerNoOverride ==
  LateUnassignedSalesManager => calcOut = 0

C13_Witness ==
  /\ LateUnassignedSalesManager
  /\ calcIn.customer.salesman_id = Mate
  /\ calcIn.customer.total_job_price > 0
  /\ \E t \in getHistoricalTeamDataForCommission(calcIn.utm, CalcUsers(calcIn), Subject, JobDate) :
       /\ t # NoRow
       /\ FindTeamMember(t, Mate, calcIn.customer.created_at) # {}
  /\ calcOut = 0

OverTwelvePercent ==
  [l \in LeadSources |->
     CASE l = "Canvassing - Salesman" -> 15 [] l = "Canvassing - Company" -> 12
       [] l = "Affiliate" -> 10 [] l = "Referral" -> 12 [] OTHER -> 12]

\* Whole months from the hire date to the job's creation date; 0 without a
\* hire date or when the hire follows the creation.
WholeMonthsOfTenure(hire, creation) ==
  IF hire = NoDate \/ hire >= creation THEN 0
  ELSE (MonthOf(creation) - MonthOf(hire))
         - (IF creation % DaysPerMonth < hire % DaysPerMonth THEN 1 ELSE 0)

TierPercent(months) ==
  IF months <= 6 THEN UpToSixPercent
  ELSE IF months <= 12 THEN SixToTwelvePercent ELSE OverTwelvePercent

\* C14: for a Salesman calculateCommission returns INSCOPE + margin bonus:
\* the tier-by-lead-source percentage of effectivePrice, the tier chosen by
\* the whole months from hire date to job creation date, plus 4% of
\* (totalJobPrice - initialScopePrice) when both prices are nonzero; 9 months,
\* Referral, 10000 / 12000 gives 1080.
C14_SalesmanInscopePlusBonus ==
  (calcPc = "done" /\ calcIn.user.role = "Salesman")
  => LET creation == IF calcIn.customer.jn_date_added # NoDate
                     THEN calcIn.customer.jn_date_added ELSE calcIn.customer.created_at
         months == WholeMonthsOfTenure(calcIn.user.hire_date, creation)
     IN /\ calcOut = TierAmount(TierPercent(months), calcIn.customer)
        /\ ( /\ months = 9
             /\ calcIn.customer.lead_source = "Referral"
             /\ calcIn.customer.initial_scope_price = 10000 * Cent
             /\ calcIn.customer.total_job_price = 12000 * Cent )
           => calcOut = 1080 * Dollar

C14_Witness ==
  /\ calcPc = "done"
  /\ calcIn.user.role = "Salesman"
  /\ calcIn.user.hire_date = MkDate(JobMonth - 9, 0)
  /\ calcIn.customer.lead_source = "Referral"
  /\ calcIn.customer.initial_scope_price = 10000 * Cent
  /\ calcIn.customer.total_job_price = 12000 * Cent
  /\ calcOut = 1080 * Dollar

\* C15: for every totalJobPrice an Affiliate Marketer's commission is the
\* smaller of 5% of totalJobPrice and 750 dollars, so it never exceeds 750;
\* totalJobPrice = 100000 gives 750.
C15_AffiliateCapped ==
  (calcPc = "done" /\ calcIn.user.role = "Affiliate Marketer")
  => /\ calcOut <= 750 * Dollar
     /\ calcOut <= 5 * calcIn.customer.total_job_price
     /\ calcOut = 750 * Dollar \/ calcOut = 5 * calcIn.customer.total_job_price
     /\ calcIn.customer.total_job_price = 100000 * Cent => calcOut = 750 * Dollar

C15_Witness ==
  /\ calcPc = "done"
  /\ calcIn.user.role = "Affiliate Marketer"
  /\ calcIn.customer.total_job_price = 100000 * Cent
  /\ calcOut = 750 * Dollar

\* The rows of the looked-up user whose interval holds the looked-up date.
IntervalsHoldingDate ==
  {m \in calcIn.utm :
     /\ m.user_id = calcIn.userId
     /\ m.joined_at <= calcIn.targetDate
     /\ (m.left_at = NoDate \/ m.left_at > calcIn.targetDate)}

\* C16: getUserTeamMembershipAtDate(userId, date) returns an interval of that
\* user with joinedAt <= date and (leftAt null or leftAt > date), one with
\* the latest joinedAt when several match, and nothing when no interval
\* covers the date: a date equal to leftAt is not covered, a date equal to
\* joinedAt is.
C16_MembershipAtDate ==
  calcPc = "done"
  => /\ IF IntervalsHoldingDate = {} THEN calcOut = NoRow
        ELSE /\ calcOut \in IntervalsHoldingDate
             /\ \A o \in IntervalsHoldingDate : o.joined_at <= calcOut.joined_at
     /\ (\A m \in calcIn.utm : m.user_id = calcIn.userId => m.left_at = calcIn.targetDate)
          => calcOut = NoRow
     /\ (\E m \in calcIn.utm :
           m.user_id = calcIn.userId /\ m.joined_at = calcIn.targetDate /\ m.left_at = NoDate)
          => calcOut # NoRow

\* Two intervals of the user hold the date and the later-joined one, which
\* started on the date itself, is returned; a third row ends on the date.
C16_Witness ==
  /\ calcPc = "done"
  /\ calcOut # NoRow
  /\ calcOut.joined_at = calcIn.targetDate
  /\ \E o \in IntervalsHoldingDate : o.joined_at < calcOut.joined_at
  /\ \E m \in calcIn.utm : m.left_at = calcIn.targetDate

\* A finished call for a Sales Manager or Supplement Manager who did not work
\* the job, none of whose membership intervals holds the job's creation date.
ManagerWithoutInterval ==
  /\ calcPc = "done"
  /\ \/ calcIn.user.role = "Sales Manager" /\ calcIn.customer.salesman_id # calcIn.user.id
     \/ calcIn.user.role = "Supplement Manager" /\ calcIn.customer.supplementer_id # calcIn.user.id
  /\ \A m \in calcIn.utm :
       m.user_id = calcIn.user.id
       => ~(m.joined_at <= JobDate /\ (m.left_at = NoDate \/ m.left_at > JobDate))

\* C18: when the user has no membership interval covering the job's creation
\* date, getHistoricalTeamDataForCommission returns null without raising and
\* calculateCommission returns 0 for a Sales Manager or Supplement Manager
\* who did not work the job themselves.
C18_NoIntervalNoOverride ==
  ManagerWithoutInterval
  => /\ getHistoricalTeamDataForCommission(calcIn.utm, CalcUsers(calcIn), calcIn.user.id, JobDate) = {NoRow}
     /\ calcOut = 0

\* The manager's interval ended on the job's creation date while the job's
\* salesman is still a member of the team.
C18_Witness ==
  /\ ManagerWithoutInterval
  /\ calcIn.user.role = "Sales Manager"
  /\ calcIn.user.hire_date = NoDate
  /\ calcIn.customer.salesman_id = Mate
  /\ calcIn.customer.total_job_price > 0
  /\ \E m \in calcIn.utm : m.user_id = calcIn.user.id /\ m.left_at = JobDate
  /\ wasUserOnTeamAtDate(calcIn.utm, Mate, 1, JobDate)
  /\ calcOut = 0

UpdateQueued(p, row, amount) ==
  \E i \in DOMAIN ops[p].update :
    ops[p].update[i].id = row.id /\ ops[p].update[i].commission_amount = amount

\* The user fills one role slot only in the batch of p.
OnlySlot(p, userId) ==
  Cardinality({<<i, k>> \in (DOMAIN batch[p]) \X (1..5) : Slots(batch[p][i])[k] = userId}) = 1

\* For every computed task with a stored non-admin row: an update op and
\* the delta (new - old) are queued exactly when |new - old| > 0.01.
UpdatesFollowDifference(p) ==
  \A s \in SlotsOfBatch(p) :
    LET customer == s[1]
        userId == s[2]
        stored == ExistingFor(existing[p], customer.id, userId)
        amount == TaskAmount([customer |-> customer, user |-> AllUsers[userId]])
    IN ( /\ userId \in DOMAIN AllUsers
         /\ customer.rejects # userId
         /\ stored # NoRow
         /\ ~stored.admin_modified )
       => IF Abs(amount - stored.commission_amount) > Cent
          THEN /\ UpdateQueued(p, stored, amount)
               /\ OnlySlot(p, userId)
                    => /\ userId \in DOMAIN ops[p].balance
                       /\ ops[p].balance[userId] = amount - stored.commission_amount
          ELSE /\ ~UpdateQueued(p, stored, amount)
               /\ OnlySlot(p, userId) => userId \notin DOMAIN ops[p].balance

\* C19: for every task with an existing non-admin commission record,
\* bulkProcessCommissions queues an update op and adds (newAmount - oldAmount)
\* to the user's balance delta exactly when |newAmount - oldAmount| > 0.01,
\* for every value of newAmount including newAmount <= 0; otherwise it queues
\* nothing and adds no delta.
C19_UpdateIffSignificant ==
  \A p \in Procs : Computed(p) => UpdatesFollowDifference(p)

CreateQueued(p, customer, userId, amount) ==
  \E i \in DOMAIN ops[p].create :
    /\ ops[p].create[i].user_id = userId
    /\ ops[p].create[i].customer_id = customer.id
    /\ ops[p].create[i].commission_amount = amount

\* For every computed task without a stored row: a create op and the delta
\* +amount are queued exactly when the amount is > 0.
CreatesFollowAmount(p) ==
  \A s \in SlotsOfBatch(p) :
    LET customer == s[1]
        userId == s[2]
        stored == ExistingFor(existing[p], customer.id, userId)
        amount == TaskAmount([customer |-> customer, user |-> AllUsers[userId]])
    IN (userId \in DOMAIN AllUsers /\ customer.rejects # userId /\ stored = NoRow)
       => IF amount > 0
          THEN /\ CreateQueued(p, customer, userId, amount)
               /\ OnlySlot(p, userId)
                    => /\ userId \in DOMAIN ops[p].balance
                       /\ ops[p].balance[userId] = amount
          ELSE /\ ~CreateQueued(p, customer, userId, amount)
               /\ OnlySlot(p, userId) => userId \notin DOMAIN ops[p].balance

\* C20: for every task without an existing commission record,
\* bulkProcessCommissions queues a create op and adds +amount to the user's
\* balance delta exactly when the computed amount is > 0, and no sequence of
\* batches leaves a commission row whose amount is zero or negative.
C20_CreateIffPositive ==
  /\ \A p \in Procs : Computed(p) => CreatesFollowAmount(p)
  /\ \A r \in commissions_due : r.commission_amount > 0

\* A finished call for a Sales Manager who is the job's own salesman.
SelfWorkedSalesManager ==
  /\ calcPc = "done"
  /\ calcIn.user.role = "Sales Manager"
  /\ calcIn.customer.salesman_id = calcIn.user.id

\* C24 (amended): for a Sales Manager who is the job's own salesman the
\* commission is 15% of totalJobPrice for Canvassing - Salesman and Referral,
\* 12% - $300 for Canvassing - Company, 10% for Affiliate and 12% for any
\* other lead source; at Referral this is not the Salesman percentage of the
\* tenure > 12 months tier, which is 12%.
C24_SelfWorkedManagerPercentages ==
  SelfWorkedSalesManager
  => LET total == calcIn.customer.total_job_price
         l == calcIn.customer.lead_source
     IN calcOut = (CASE l \in {"Canvassing - Salesman", "Referral"} -> 15 * total
                     [] l = "Canvassing - Company" -> 12 * total - 300 * Dollar
                     [] l = "Affiliate" -> 10 * total
                     [] OTHER -> 12 * total)

\* C24: for a Sales Manager who is the job's own salesman the commission is,
\* for every lead source, the Salesman percentage of the tenure > 12 months
\* tier of that lead source applied to totalJobPrice.
C24_SelfWorkedManagerTopTier ==
  SelfWorkedSalesManager
  => LET total == calcIn.customer.total_job_price
         l == calcIn.customer.lead_source
     IN calcOut = OverTwelvePercent[l] * total
                  - (IF l = "Canvassing - Company" THEN 300 * Dollar ELSE 0)

C24_Witness ==
  /\ SelfWorkedSalesManager
  /\ calcIn.customer.lead_source = "Referral"
  /\ calcIn.customer.total_job_price = 12000 * Cent
  /\ calcOut = 1800 * Dollar

\* The job's creation date: jn_date_added when set, else created_at.
CreationDateOf(customer) ==
  IF customer.jn_date_added # NoDate THEN customer.jn_date_added ELSE customer.created_at

\* C25: within one calculateCommission call every tenure and team-membership
\* test uses the job's creation date (jn_date_added when set, else
\* created_at): the amount is the one the call returns for the same job with
\* created_at set to that date, so no test reads another date.
C25_OneCreationDate ==
  calcPc = "done"
  => LET creation == CreationDateOf(calcIn.customer)
         keyed == [calcIn.customer EXCEPT !.created_at = creation]
     IN \E historicalTeam \in
             getHistoricalTeamDataForCommission(calcIn.utm, CalcUsers(calcIn), Subject, creation)
               \cup {NoRow} :
          calcOut = calculateCommission(calcIn.user, keyed, NoRow, historicalTeam, JobDate)

\* C22: syncCustomers ends in one of three outcomes: 200 after COMMIT with no
\* task error, 207 after COMMIT with the first errors of the batch (at most
\* ten), or an error handed to the caller after ROLLBACK; no 200 or 207 is
\* sent before COMMIT.  The response built for every error list of up to
\* ErrorLimit + 2 entries is checked as the handler builds it.
ErrorLists == {[i \in 1..n |-> i] : n \in 0..(ErrorLimit + 2)}
C22_ThreeOutcomes ==
  /\ \A p \in Procs :
       kind[p] = "sync" =>
         /\ response[p].status \in {"none", "200", "207", "error"}
         /\ response[p].status \in {"200", "207"} <=> pc[p] = "committed"
         /\ response[p].status = "error" <=> pc[p] = "rolledback"
         /\ pc[p] = "committed" =>
              /\ response[p].status = "200" <=> ops[p].errors = <<>>
              /\ response[p].status = "207" => Len(response[p].errors) \in 1..ErrorLimit
         /\ response[p].status # "207" => response[p].errors = <<>>
  /\ \A errors \in ErrorLists :
       /\ SyncResponse(errors).status = (IF errors = <<>> THEN "200" ELSE "207")
       /\ Len(SyncResponse(errors).errors) <= ErrorLimit
       /\ \A i \in 1..Len(SyncResponse(errors).errors) : SyncResponse(errors).errors[i] = errors[i]

C22_Witness ==
  \E p \in Procs :
    /\ kind[p] = "sync" /\ pc[p] = "committed"
    /\ response[p].status = "207" /\ response[p].errors = ops[p].errors
    /\ ops[p].errors # <<>>

\* C21: in one batch the balance deltas are folded by user before any ledger
\* write: bulkProcessCommissions writes user_balance only in its last two
\* statements, when every task has been computed and the queued deltas are
\* final; the first of them only inserts missing zero rows, and the second
\* adds to each user's row, once, the sum of the deltas of that user's tasks.
TaskDelta(task) ==
  LET numericAmount == TaskAmount(task)
  IN IF task.customer.rejects = task.userId \/ numericAmount <= 0 THEN 0
     ELSE IF task.existingCommission = NoRow THEN numericAmount
     ELSE IF Abs(numericAmount - task.existingCommission.commission_amount) > Cent
     THEN numericAmount - task.existingCommission.commission_amount
     ELSE 0
RECURSIVE SumOfTaskDeltas(_, _, _)
SumOfTaskDeltas(tasks, i, userId) ==
  IF i > Len(tasks) THEN 0
  ELSE (IF tasks[i].userId = userId THEN TaskDelta(tasks[i]) ELSE 0)
       + SumOfTaskDeltas(tasks, i + 1, userId)
TasksOfBatch(p) == CommissionTasks(batch[p], 1, AllUsers, existing[p])
ViewBalanceNext(p, u) == IF u \in DOMAIN tx'[p].bal THEN tx'[p].bal[u] ELSE user_balance'[u]
InBatch(p) == pc[p] \in {"reconcile", "insert", "update", "ensure", "balance"}
FoldedBalanceWrites(p) ==
  /\ (InBatch(p) /\ tx'[p].bal # tx[p].bal) =>
       /\ pc[p] \in {"ensure", "balance"}
       /\ ops'[p] = ops[p]
       /\ \A u \in DOMAIN AllUsers :
            SumOfTaskDeltas(TasksOfBatch(p), 1, u) =
              (IF u \in DOMAIN ops[p].balance THEN ops[p].balance[u] ELSE 0)
  /\ (pc[p] = "ensure" /\ pc'[p] = "balance") =>
       \A u \in DOMAIN AllUsers :
         \/ ViewBalanceNext(p, u) = ViewBalance(p, u)
         \/ ViewBalance(p, u) = NoRow /\ ViewBalanceNext(p, u) = ZeroBalance
  /\ (pc[p] = "balance" /\ pc'[p] = "commit") =>
       \A u \in DOMAIN AllUsers :
         IF u \in DOMAIN ops[p].balance
         THEN /\ ViewBalance(p, u) # NoRow
              /\ ViewBalanceNext(p, u) =
                   ApplyCommissionDelta(ViewBalance(p, u), SumOfTaskDeltas(TasksOfBatch(p), 1, u))
         ELSE ViewBalanceNext(p, u) = ViewBalance(p, u)
C21_DeltasFoldedByUser == [][\A p \in Procs : FoldedBalanceWrites(p)]_vars

\* a request whose batch holds two tasks of one user has sent its balance update
C21_Witness ==
  \E p \in Procs, u \in DOMAIN AllUsers :
    /\ pc[p] = "commit"
    /\ u \in DOMAIN tx[p].bal
    /\ Cardinality({i \in DOMAIN TasksOfBatch(p) :
                      TasksOfBatch(p)[i].userId = u /\ TaskDelta(TasksOfBatch(p)[i]) # 0}) = 2

\* C27: addPayment is atomic also when requests interleave on the shared pool:
\* once every addPayment call has returned or thrown, total_payments_received
\* of the user is the sum of the payment rows that exist (the two requests pay
\* different amounts, so each row is matched by its own increase).
ReceivedOf(u) == IF user_balance[u] = NoRow THEN 0 ELSE user_balance[u].total_payments_received
C27_AddPaymentAtomic ==
  (DOMAIN rq # {} /\ \A r \in DOMAIN rq : Finished(r)) =>
    ReceivedOf(PayUser) = SumAmounts({p \in payments : p.user_id = PayUser}, "amount")

\* C23: once processCustomerCommission has returned for user U, having run
\* with no other request in flight, U's balance row holds the sum of U's
\* commission rows, the sum of U's payment rows, and their difference.
RanAlone(r) == Finished(r) /\ DOMAIN rq = rq[r].before \cup {r}
C23_FullRecomputeOverwritesAll ==
  (RanAlone(RecomputeRequest) /\ rq[RecomputeRequest].pc = "returned") =>
    /\ user_balance[PayUser] # NoRow
    /\ user_balance[PayUser].total_commissions_earned =
         SumAmounts({r \in commissions_due : r.user_id = PayUser}, "commission_amount")
    /\ user_balance[PayUser].total_payments_received =
         SumAmounts({p \in payments : p.user_id = PayUser}, "amount")
    /\ user_balance[PayUser].current_balance =
         user_balance[PayUser].total_commissions_earned - user_balance[PayUser].total_payments_received

\* C26: whenever no sync or recalculation is in flight and no admin request is
\* half way, each user's total_commissions_earned is the sum of
\* commission_amount over that user's commission rows.
EarnedOf(u) == IF user_balance[u] = NoRow THEN 0 ELSE user_balance[u].total_commissions_earned
C26_EarnedIsSumOfRows ==
  ((\A p \in Procs : Resting(p)) /\ (\A r \in DOMAIN rq : Finished(r))) =>
    \A u \in DOMAIN AllUsers :
      EarnedOf(u) = SumAmounts({r \in commissions_due : r.user_id = u}, "commission_amount")

\* C29: after any sequence of addPayment (with commission mappings),
\* addPaymentCommissionMapping and deletePayment, a commission row has
\* is_paid = true if and only if some payment_commission_mapping row refers to it.
C29_PaidIffMapped ==
  \A r \in commissions_due :
    r.id \in is_paid <=> \E m \in payment_commission_mapping : m.commission_due_id = r.id

\* C30: getAllUserBalances never serves a stale list: every response is the
\* committed user_balance table of the moment it is sent.
C30_NeverStale == served # NoRow => served.data = served.committed

====
